---- MODULE Spec2Model ----
(***************************************************************************)
(* A model of the BTLogger receiver: the dual-core task scheduler with its *)
(* two FreeRTOS mailboxes (src/src/Core/CoreTaskManager.cpp), the callers  *)
(* of the managers (src/src/BTLoggerApp.cpp and the device screen), and    *)
(* the session log writer (src/src/Core/SDCardManager.cpp).                *)
(*                                                                         *)
(* The specifications share one initial state (the state right after the  *)
(* constructors ran); among them:                                          *)
(*   SpecMailbox   - sendToUI / sendToCommunications / xQueueReceive       *)
(*   Spec          - initialize, start, the two loops, stop, the callbacks *)
(*   SpecLifecycle - the same with start and stop in any order             *)
(*   SpecTerminate - cleanupTasks and the loop exits statement by statement*)
(*   SpecSession   - startNewSession, saveLogToSession, rotation, end      *)
(*   SpecBluetooth - scanning, connectToDevice, disconnects, update        *)
(*   SpecProducer  - BTLoggerSender: begin, setBTLogLevel, the log calls   *)
(***************************************************************************)
EXTENDS Integers, Sequences, FiniteSets, TLC

\* ------------------------------------------------------------------ bounds

\* xQueueCreate(10, sizeof(CoreMessage))
QUEUE_LENGTH == 10

\* sends attempted by the mailbox harness, over both mailboxes
MaxSends == 11

\* file operations posted through onFileOperation in one run
MaxFileOps == 1

\* SDCardManager configuration (setMaxFileSize, setMaxFiles), scaled down
MaxFileSize == 4
MaxFilesPerSession == 3

\* bytes of the session header and of the rotation header, scaled down
SessionHeaderLen == 1
RotationHeaderLen == 1

\* records handed to saveLogToSession in one run, and clock ticks of 500 ms
MaxRecords == 4

\* records of the run in which the card stays in and no write fails: enough
\* to fill MaxFilesPerSession files
MaxHealthyRecords == 8

\* records delivered to the log callback in the run that fills the UI
\* mailbox: one more than the mailbox holds
MaxDelivered == 11
MaxTicks == 2

\* formatted sizes of a log entry, scaled down
RecordSizes == {1, 2}

\* device names: " " and "." are replaced when the file name is built
Devices == {<<"s", "_", "1">>, <<"s", ".", "1">>}

Mailboxes == {"ui", "comm"}
Senders == {"s1", "s2"}
FileOperations == {"load", "delete"}

\* ------------------------------------------------------------------ state

VARIABLES
    \* CoreTaskManager fields
    running, communicationsTaskRunning, uiTaskRunning,
    communicationsTaskHandle, uiTaskHandle,
    managerMutex, uiMessageQueue, communicationsMessageQueue,
    bluetoothManager, sdCardManager,
    \* positions of the execution contexts
    mainPc, commPc, uiPc, blePc,
    \* the local `message` of runCommunicationsLoop between receive and handling
    commMessage,
    \* observation of the scheduler run
    fileOpsPosted, fileOpsDequeued, fileOpsAnswered, useAfterFree,
    \* mailbox harness: callers of sendToUI / sendToCommunications
    senderPc, sendCount, sendOk, sendFailed, received,
    \* SDCardManager fields; the files the SD library has open; the card
    currentSessionFile, currentDeviceName, currentFile, currentFileSize,
    currentFileNumber, openFiles, files, cardPresent, millis,
    \* observation of the appends: records handed in so far; the records whose
    \* saveLogToSession returned true in the current session, and their bytes
    recordsGiven, sessionRecords, sessionRecordBytes,
    \* the saveLogToSession call that returned in the last step, if any: the
    \* size of the formatted entry, what print() wrote, the value returned
    saveResult,
    \* the loadLogFile, deleteFile, listDirectory or listLogFiles call that
    \* returned in the last step and the value it returned; <<>> if none did
    fileResult,
    \* BluetoothManager fields
    scanning, lastScanTime, availableDevices, connectedDevices,
    \* the BLEClient objects that exist (created, not deleted), and the clients
    \* whose log characteristic has notifyCallback registered
    clients, subscribed,
    \* per calling context, the connectToDevice call that has not returned yet
    connecting,
    \* observation: millis() of the last automatic connection attempt; what the
    \* last BluetoothManager step did; the last notification and its outcome
    lastAutoAttempt, btEvent, lastNotify,
    \* the producer (BTLoggerSender of another board): _initialized and
    \* _btLogLevel; the call that returned in the last step, the level of
    \* the message it was given and whether it notified a packet
    btLoggerSender, senderEvent,
    \* the disconnectDevice in progress on the device screen's task: the
    \* address it was called with and the position of its iterator `it` in
    \* connectedDevices; <<>> if none is in progress
    disconnecting

taskVars == <<running, communicationsTaskRunning, uiTaskRunning,
              communicationsTaskHandle, uiTaskHandle, managerMutex,
              bluetoothManager, sdCardManager, mainPc, commPc, uiPc, blePc,
              commMessage, fileOpsPosted, fileOpsDequeued,
              fileOpsAnswered, useAfterFree>>
queueVars == <<uiMessageQueue, communicationsMessageQueue>>
harnessVars == <<senderPc, sendCount, sendOk, sendFailed, received>>

\* the producer: the statics of BTLoggerSender and what its last call did
producerVars == <<btLoggerSender, senderEvent>>

sessionVars == <<currentSessionFile, currentDeviceName, currentFile, currentFileSize,
                 currentFileNumber, openFiles, files, cardPresent, millis,
                 recordsGiven, sessionRecords, sessionRecordBytes, saveResult,
                 fileResult>>

\* BluetoothManager fields, the BLE client objects, the call in progress
btVars == <<scanning, lastScanTime, availableDevices, connectedDevices,
            clients, subscribed, connecting, lastAutoAttempt,
            btEvent, lastNotify>>

vars == <<taskVars, queueVars, harnessVars, producerVars, disconnecting, sessionVars, btVars>>

\* ------------------------------------------------------------ CoreMessage

CoreMessage(t, d1, d2, v1) == [type |-> t, data1 |-> d1, data2 |-> d2, value1 |-> v1]

ShutdownMsg == CoreMessage("MSG_SHUTDOWN", "", "", 0)

\* a queue handle: nullptr until xQueueCreate, nullptr again after vQueueDelete
NullQueue == [created |-> FALSE, items |-> <<>>]
NewQueue == [created |-> TRUE, items |-> <<>>]

\* ----------------------------------------------------- FreeRTOS queue calls

QueueFull(q) == Len(q.items) >= QUEUE_LENGTH

\* xQueueSend(q, &message, pdMS_TO_TICKS(100)) at the moment it returns: pdTRUE
\* with the message copied to the back when there is room, errQUEUE_FULL with
\* the queue untouched when it stayed full for the whole timeout.
XQueueSendBlocksForever(q, message) ==
    IF QueueFull(q) THEN {} ELSE {<<TRUE, [q EXCEPT !.items = Append(@, message)]>>}

xQueueSend(q, message) ==
    IF QueueFull(q)
    THEN {<<FALSE, q>>}
    ELSE {<<TRUE, [q EXCEPT !.items = Append(@, message)]>>}

\* sendToUI / sendToCommunications: the outcomes <<returned value, queue after>>
SendTo(q, message) ==
    IF ~q.created THEN {<<FALSE, q>>} ELSE xQueueSend(q, message)

\* xQueueReceive(q, &message, timeout) == pdTRUE: the front item is removed
XQueueReceivePeeks(q) == q

xQueueReceive(q) == [q EXCEPT !.items = Tail(@)]

\* the contexts that call connectToDevice: the BLE scan callback (onDeviceFound)
\* and the Presentation task (DeviceManagerScreen::connectToDevice)
Contexts == {"scan", "ui"}

NoAttempt == [address |-> "", client |-> 0, stale |-> FALSE, linkLost |-> FALSE]
Never == -1
NoEvent == [op |-> "", address |-> "", returned |-> FALSE, callbacks |-> <<>>]
NoNotify ==
    [address |-> "", data |-> <<>>, sent |-> <<>>, delivered |-> <<>>,
     droppedBefore |-> ""]

\* enum BTLogLevel, the levels between the two a producer of the frames uses
BT_VERBOSE == 0
BT_INFO == 2
BT_WARN == 3

\* no saveLogToSession call returned in the last step
NoSave == [called |-> FALSE, size |-> 0, written |-> 0, returned |-> FALSE]

\* ------------------------------------------------------------------- Init

Init ==
    /\ running = FALSE
    /\ communicationsTaskRunning = FALSE
    /\ uiTaskRunning = FALSE
    /\ communicationsTaskHandle = FALSE
    /\ uiTaskHandle = FALSE
    /\ managerMutex = "null"
    /\ uiMessageQueue = NullQueue
    /\ communicationsMessageQueue = NullQueue
    /\ bluetoothManager = FALSE
    /\ sdCardManager = FALSE
    /\ mainPc = "constructed"
    /\ commPc = "none"
    /\ uiPc = "none"
    /\ blePc = "idle"
    /\ commMessage = ShutdownMsg
    /\ fileOpsPosted = 0
    /\ fileOpsDequeued = 0
    /\ fileOpsAnswered = 0
    /\ useAfterFree = FALSE
    /\ senderPc = [s \in Senders |-> "idle"]
    /\ sendCount = [m \in Mailboxes |-> 0]
    /\ sendOk = [m \in Mailboxes |-> {}]
    /\ sendFailed = [m \in Mailboxes |-> {}]
    /\ received = [m \in Mailboxes |-> <<>>]
    /\ currentSessionFile = <<>>
    /\ currentDeviceName = <<>>
    /\ currentFile = <<>>
    /\ currentFileSize = 0
    /\ currentFileNumber = 0
    /\ openFiles = {}
    /\ files = <<>>
    /\ cardPresent = TRUE
    /\ millis = 0
    /\ recordsGiven = 0
    /\ sessionRecords = {}
    /\ sessionRecordBytes = 0
    /\ saveResult = NoSave
    /\ fileResult = <<>>
    /\ scanning = FALSE
    /\ lastScanTime = 0
    /\ availableDevices = <<>>
    /\ connectedDevices = <<>>
    /\ clients = {}
    /\ subscribed = {}
    /\ connecting = [c \in Contexts |-> NoAttempt]
    /\ lastAutoAttempt = Never
    /\ btEvent = NoEvent
    /\ lastNotify = NoNotify
    /\ btLoggerSender = [initialized |-> FALSE, btLogLevel |-> BT_INFO]
    /\ senderEvent = <<>>
    /\ disconnecting = <<>>

\* ------------------------------------------------- CoreTaskManager::initialize

\* initialize(): the mutex, then both queues, then the two managers
\* (BluetoothManager::initialize always returns true). A failed creation
\* returns false and leaves what was created so far.
initialize ==
    /\ \E mutexOk, uiOk, commOk \in BOOLEAN :
        IF ~mutexOk
        THEN /\ mainPc' = "init_failed"
             /\ UNCHANGED <<managerMutex, queueVars, bluetoothManager, sdCardManager>>
        ELSE /\ managerMutex' = "free"
             /\ uiMessageQueue' = IF uiOk THEN NewQueue ELSE NullQueue
             /\ communicationsMessageQueue' = IF commOk THEN NewQueue ELSE NullQueue
             /\ IF uiOk /\ commOk
                THEN /\ sdCardManager' = TRUE
                     /\ bluetoothManager' = TRUE
                     /\ mainPc' = "initialized"
                ELSE /\ UNCHANGED <<sdCardManager, bluetoothManager>>
                     /\ mainPc' = "init_failed"
    /\ UNCHANGED <<running, communicationsTaskRunning, uiTaskRunning,
                   communicationsTaskHandle, uiTaskHandle, commPc, uiPc, blePc,
                   commMessage, fileOpsPosted, fileOpsDequeued,
                   fileOpsAnswered, useAfterFree, harnessVars, producerVars, disconnecting, btVars, sessionVars>>

\* initialize() on the manager just constructed
Initialize ==
    /\ mainPc = "constructed"
    /\ initialize

\* ------------------------------------------------------- mailbox harness

QueueOf(mb) == IF mb = "ui" THEN uiMessageQueue ELSE communicationsMessageQueue

SetQueue(mb, q) ==
    IF mb = "ui"
    THEN uiMessageQueue' = q /\ UNCHANGED communicationsMessageQueue
    ELSE communicationsMessageQueue' = q /\ UNCHANGED uiMessageQueue

\* the mailbox a harness context is sending to
TargetOf(s) == IF senderPc[s] = "sendToUI" THEN "ui" ELSE "comm"

Calling == {s \in Senders : senderPc[s] # "idle"}

\* a context enters sendToUI(msg) / sendToCommunications(msg)
SenderCall(s, mb) ==
    /\ senderPc[s] = "idle"
    /\ sendCount["ui"] + sendCount["comm"] + Cardinality(Calling) < MaxSends
    /\ senderPc' = [senderPc EXCEPT ![s] = IF mb = "ui" THEN "sendToUI"
                                                         ELSE "sendToCommunications"]
    /\ UNCHANGED <<taskVars, queueVars, sessionVars, btVars, producerVars, disconnecting, sendCount,
                   sendOk, sendFailed, received>>

\* the call returns; the message carries the number of the attempt in value1
SenderReturn(s) ==
    /\ senderPc[s] # "idle"
    /\ LET mb == TargetOf(s)
           id == sendCount[mb] + 1
       IN /\ \E out \in SendTo(QueueOf(mb), CoreMessage("MSG_UI_EVENT", "", "", id)) :
               /\ SetQueue(mb, out[2])
               /\ IF out[1]
                  THEN sendOk' = [sendOk EXCEPT ![mb] = @ \cup {id}]
                       /\ UNCHANGED sendFailed
                  ELSE sendFailed' = [sendFailed EXCEPT ![mb] = @ \cup {id}]
                       /\ UNCHANGED sendOk
          /\ sendCount' = [sendCount EXCEPT ![mb] = id]
    /\ senderPc' = [senderPc EXCEPT ![s] = "idle"]
    /\ UNCHANGED <<taskVars, sessionVars, btVars, producerVars, disconnecting, received>>

\* the receiving loop's xQueueReceive returns pdTRUE
LoopReceive(mb) ==
    /\ QueueOf(mb).created
    /\ QueueOf(mb).items # <<>>
    /\ received' = [received EXCEPT ![mb] = Append(@, Head(QueueOf(mb).items).value1)]
    /\ SetQueue(mb, xQueueReceive(QueueOf(mb)))
    /\ UNCHANGED <<taskVars, sessionVars, btVars, producerVars, disconnecting, senderPc, sendCount,
                   sendOk, sendFailed>>

\* the queue a mailbox has after the step
QueueAfter(mb) == IF mb = "ui" THEN uiMessageQueue' ELSE communicationsMessageQueue'

\* the attempt numbers carried by the messages of a queue, front first
IdsIn(q) == [i \in 1..Len(q.items) |-> q.items[i].value1]

NextMailbox ==
    \/ Initialize
    \/ \E s \in Senders, mb \in Mailboxes : SenderCall(s, mb)
    \/ \E s \in Senders : SenderReturn(s)
    \/ \E mb \in Mailboxes : LoopReceive(mb)

SpecMailbox == Init /\ [][NextMailbox]_vars

\* ------------------------------------------------ CoreTaskManager::start

mainUnchanged == <<commMessage, fileOpsPosted, fileOpsDequeued,
                   fileOpsAnswered, harnessVars, producerVars, disconnecting, btVars, sessionVars>>

\* start(): `if (running) return;` then xTaskCreatePinnedToCore(communicationsTask)
StartCreateCommunicationsTask ==
    /\ mainPc = "initialized"
    /\ ~running
    /\ communicationsTaskHandle' = TRUE
    /\ commPc' = "entry"
    /\ mainPc' = "start_createUI"
    /\ UNCHANGED <<running, communicationsTaskRunning, uiTaskRunning, uiTaskHandle,
                   managerMutex, queueVars, bluetoothManager, sdCardManager,
                   uiPc, blePc, useAfterFree, mainUnchanged>>

\* start(): xTaskCreatePinnedToCore(uiTask)
StartCreateUITask ==
    /\ mainPc = "start_createUI"
    /\ uiTaskHandle' = TRUE
    /\ uiPc' = "entry"
    /\ mainPc' = "start_setRunning"
    /\ UNCHANGED <<running, communicationsTaskRunning, uiTaskRunning,
                   communicationsTaskHandle, managerMutex, queueVars,
                   bluetoothManager, sdCardManager, commPc, blePc, useAfterFree,
                   mainUnchanged>>

\* start(): `running = true;` after both tasks were created
StartSetRunning ==
    /\ mainPc = "start_setRunning"
    /\ running' = TRUE
    /\ mainPc' = "started"
    /\ UNCHANGED <<communicationsTaskRunning, uiTaskRunning, communicationsTaskHandle,
                   uiTaskHandle, managerMutex, queueVars, bluetoothManager,
                   sdCardManager, commPc, uiPc, blePc, useAfterFree, mainUnchanged>>

\* BTLoggerApp::start(), after coreTaskManager->start(): the launcher calls
\* getBluetoothManager()->startScanning() itself
AppStartScanning ==
    /\ mainPc = "started"
    /\ bluetoothManager
    /\ mainPc' = "startScanning"
    /\ UNCHANGED <<running, communicationsTaskRunning, uiTaskRunning,
                   communicationsTaskHandle, uiTaskHandle, managerMutex, queueVars,
                   bluetoothManager, sdCardManager, commPc, uiPc, blePc,
                   useAfterFree, mainUnchanged>>

AppStartScanningReturn ==
    /\ mainPc = "startScanning"
    /\ mainPc' = "ready"
    /\ UNCHANGED <<running, communicationsTaskRunning, uiTaskRunning,
                   communicationsTaskHandle, uiTaskHandle, managerMutex, queueVars,
                   bluetoothManager, sdCardManager, commPc, uiPc, blePc,
                   useAfterFree, mainUnchanged>>

\* ------------------------------------------------- CoreTaskManager::stop

StopPcs == {"stop_sendToUI", "stop_sendToCommunications", "stop_wait",
            "stop_cleanupTasks", "stop_takeMutex", "stop_teardown", "stopped"}

\* stop(): `if (!running) return;` then `running = false;`
StopClearRunning ==
    /\ mainPc = "ready"
    /\ running
    /\ running' = FALSE
    /\ mainPc' = "stop_sendToUI"
    /\ UNCHANGED <<communicationsTaskRunning, uiTaskRunning, communicationsTaskHandle,
                   uiTaskHandle, managerMutex, queueVars, bluetoothManager,
                   sdCardManager, commPc, uiPc, blePc, useAfterFree, mainUnchanged>>

\* stop(): sendToUI(shutdownMsg), the result is not looked at
StopSendToUI ==
    /\ mainPc = "stop_sendToUI"
    /\ \E out \in SendTo(uiMessageQueue, ShutdownMsg) : uiMessageQueue' = out[2]
    /\ mainPc' = "stop_sendToCommunications"
    /\ UNCHANGED <<running, communicationsTaskRunning, uiTaskRunning,
                   communicationsTaskHandle, uiTaskHandle, managerMutex,
                   communicationsMessageQueue, bluetoothManager, sdCardManager,
                   commPc, uiPc, blePc, useAfterFree, mainUnchanged>>

\* stop(): sendToCommunications(shutdownMsg), the result is not looked at
StopSendToCommunications ==
    /\ mainPc = "stop_sendToCommunications"
    /\ \E out \in SendTo(communicationsMessageQueue, ShutdownMsg) :
            communicationsMessageQueue' = out[2]
    /\ mainPc' = "stop_wait"
    /\ UNCHANGED <<running, communicationsTaskRunning, uiTaskRunning,
                   communicationsTaskHandle, uiTaskHandle, managerMutex,
                   uiMessageQueue, bluetoothManager, sdCardManager,
                   commPc, uiPc, blePc, useAfterFree, mainUnchanged>>

\* stop(): the wait loop ends because both loops reported terminated
StopWaitTasksFinished ==
    /\ mainPc = "stop_wait"
    /\ ~(communicationsTaskRunning \/ uiTaskRunning)
    /\ mainPc' = "stop_cleanupTasks"
    /\ UNCHANGED <<running, communicationsTaskRunning, uiTaskRunning,
                   communicationsTaskHandle, uiTaskHandle, managerMutex, queueVars,
                   bluetoothManager, sdCardManager, commPc, uiPc, blePc,
                   useAfterFree, mainUnchanged>>

\* stop(): the wait loop ends because millis() reached the 5 s timeout
StopWaitTimeout ==
    /\ mainPc = "stop_wait"
    /\ communicationsTaskRunning \/ uiTaskRunning
    /\ mainPc' = "stop_cleanupTasks"
    /\ UNCHANGED <<running, communicationsTaskRunning, uiTaskRunning,
                   communicationsTaskHandle, uiTaskHandle, managerMutex, queueVars,
                   bluetoothManager, sdCardManager, commPc, uiPc, blePc,
                   useAfterFree, mainUnchanged>>

\* cleanupTasks(): vTaskDelete of every task whose handle is set and whose
\* running indicator is still true. A deleted task keeps what it holds.
CleanupTasks ==
    /\ mainPc = "stop_cleanupTasks"
    /\ IF communicationsTaskHandle /\ communicationsTaskRunning
       THEN /\ commPc' = "deleted"
            /\ communicationsTaskHandle' = FALSE
            /\ communicationsTaskRunning' = FALSE
       ELSE UNCHANGED <<commPc, communicationsTaskHandle, communicationsTaskRunning>>
    /\ IF uiTaskHandle /\ uiTaskRunning
       THEN /\ uiPc' = "deleted"
            /\ uiTaskHandle' = FALSE
            /\ uiTaskRunning' = FALSE
       ELSE UNCHANGED <<uiPc, uiTaskHandle, uiTaskRunning>>
    /\ mainPc' = "stop_takeMutex"
    /\ UNCHANGED <<running, managerMutex, queueVars, bluetoothManager,
                   sdCardManager, blePc, useAfterFree, mainUnchanged>>

\* stop(): xSemaphoreTake(managerMutex, portMAX_DELAY)
StopTakeMutex ==
    /\ mainPc = "stop_takeMutex"
    /\ managerMutex = "free"
    /\ managerMutex' = "main"
    /\ mainPc' = "stop_teardown"
    /\ UNCHANGED <<running, communicationsTaskRunning, uiTaskRunning,
                   communicationsTaskHandle, uiTaskHandle, queueVars,
                   bluetoothManager, sdCardManager, commPc, uiPc, blePc,
                   useAfterFree, mainUnchanged>>

\* stop(): delete both managers, give the mutex, delete the queues and the
\* mutex. A context that is inside a manager at this moment uses freed memory.
StopTeardown ==
    /\ mainPc = "stop_teardown"
    /\ bluetoothManager' = FALSE
    /\ sdCardManager' = FALSE
    /\ uiMessageQueue' = NullQueue
    /\ communicationsMessageQueue' = NullQueue
    /\ managerMutex' = "null"
    /\ useAfterFree' = (useAfterFree \/ blePc = "saveLogToSession")
    /\ mainPc' = "stopped"
    /\ UNCHANGED <<running, communicationsTaskRunning, uiTaskRunning,
                   communicationsTaskHandle, uiTaskHandle, commPc, uiPc, blePc,
                   mainUnchanged>>

\* ------------------------------------- CoreTaskManager::runCommunicationsLoop

commUnchanged == <<running, uiTaskRunning, communicationsTaskHandle, uiTaskHandle,
                   bluetoothManager, sdCardManager, mainPc, uiPc, blePc,
                   fileOpsPosted, useAfterFree, harnessVars, producerVars, disconnecting, btVars, sessionVars>>

IsFileRequest(m) == m.type = "MSG_FILE_OPERATION" /\ m.data1 \in {"load", "delete"}

\* `communicationsTaskRunning = true;`
CommEntry ==
    /\ commPc = "entry"
    /\ communicationsTaskRunning' = TRUE
    /\ commPc' = "while"
    /\ UNCHANGED <<managerMutex, queueVars, commMessage, fileOpsDequeued,
                   fileOpsAnswered, commUnchanged>>

\* `while (true)`: the loop is left by `break` only
CommWhileIgnoresRunning ==
    /\ commPc = "while"
    /\ commPc' = "receive"
    /\ UNCHANGED <<communicationsTaskRunning, managerMutex, queueVars, commMessage,
                   fileOpsDequeued, fileOpsAnswered, commUnchanged>>

\* `while (running)`
CommWhile ==
    /\ commPc = "while"
    /\ commPc' = IF running THEN "receive" ELSE "exit"
    /\ UNCHANGED <<communicationsTaskRunning, managerMutex, queueVars, commMessage,
                   fileOpsDequeued, fileOpsAnswered, commUnchanged>>

\* xQueueReceive(communicationsMessageQueue, &message, 10 ms): a message, and
\* `break` if it is MSG_SHUTDOWN; or the timeout on an empty queue
CommReceive ==
    /\ commPc = "receive"
    /\ communicationsMessageQueue.created
    /\ IF communicationsMessageQueue.items # <<>>
       THEN LET m == Head(communicationsMessageQueue.items)
            IN /\ communicationsMessageQueue' = xQueueReceive(communicationsMessageQueue)
               /\ commMessage' = m
               /\ commPc' = IF m.type = "MSG_SHUTDOWN" THEN "exit" ELSE "handle"
               /\ fileOpsDequeued' = fileOpsDequeued + (IF IsFileRequest(m) THEN 1 ELSE 0)
       ELSE /\ commPc' = "update"
            /\ UNCHANGED <<communicationsMessageQueue, commMessage, fileOpsDequeued>>
    /\ UNCHANGED <<communicationsTaskRunning, managerMutex, uiMessageQueue,
                   fileOpsAnswered, commUnchanged>>

\* handleCommunicationsMessage, MSG_FILE_OPERATION: take the mutex and run
\* loadLogFile / deleteFile on the SD card manager; any other message is ignored
CommHandleMessage ==
    /\ commPc = "handle"
    /\ IF commMessage.type = "MSG_FILE_OPERATION"
       THEN /\ managerMutex = "free"
            /\ IF sdCardManager /\ commMessage.data1 \in {"load", "delete"}
               THEN managerMutex' = "comm" /\ commPc' = "fileop_sendToUI"
               ELSE UNCHANGED managerMutex /\ commPc' = "update"
       ELSE UNCHANGED managerMutex /\ commPc' = "update"
    /\ UNCHANGED <<communicationsTaskRunning, queueVars, commMessage,
                   fileOpsDequeued, fileOpsAnswered, commUnchanged>>

\* handleCommunicationsMessage: sendToUI(result), the result of the send is
\* not looked at; then xSemaphoreGive(managerMutex)
CommSendResult ==
    /\ commPc = "fileop_sendToUI"
    /\ LET result == IF commMessage.data1 = "load"
                     THEN CoreMessage("MSG_UI_EVENT", "file_loaded", "lines", 0)
                     ELSE CoreMessage("MSG_UI_EVENT", "file_deleted", "status", 0)
       IN \E out \in SendTo(uiMessageQueue, result) :
            /\ uiMessageQueue' = out[2]
            /\ fileOpsAnswered' = fileOpsAnswered + (IF out[1] THEN 1 ELSE 0)
    /\ managerMutex' = "free"
    /\ commPc' = "update"
    /\ UNCHANGED <<communicationsTaskRunning, communicationsMessageQueue,
                   commMessage, fileOpsDequeued, commUnchanged>>

\* xSemaphoreTake(managerMutex, portMAX_DELAY) before bluetoothManager->update()
CommUpdateTake ==
    /\ commPc = "update"
    /\ managerMutex = "free"
    /\ managerMutex' = "comm"
    /\ commPc' = "updating"
    /\ UNCHANGED <<communicationsTaskRunning, queueVars, commMessage,
                   fileOpsDequeued, fileOpsAnswered, commUnchanged>>

\* bluetoothManager->update() returned; xSemaphoreGive; vTaskDelay(1 ms)
CommUpdateGive ==
    /\ commPc = "updating"
    /\ managerMutex' = "free"
    /\ commPc' = "while"
    /\ UNCHANGED <<communicationsTaskRunning, queueVars, commMessage,
                   fileOpsDequeued, fileOpsAnswered, commUnchanged>>

\* `communicationsTaskRunning = false; vTaskDelete(nullptr);`
CommExit ==
    /\ commPc = "exit"
    /\ communicationsTaskRunning' = FALSE
    /\ commPc' = "ended"
    /\ UNCHANGED <<managerMutex, queueVars, commMessage, fileOpsDequeued,
                   fileOpsAnswered, commUnchanged>>

\* ------------------------------------------------ CoreTaskManager::runUILoop

uiUnchanged == <<running, communicationsTaskRunning, communicationsTaskHandle,
                 uiTaskHandle, managerMutex, communicationsMessageQueue,
                 bluetoothManager, sdCardManager, mainPc, commPc, blePc,
                 commMessage, fileOpsPosted, fileOpsDequeued,
                 fileOpsAnswered, useAfterFree, harnessVars, producerVars, disconnecting, btVars, sessionVars>>

\* BluetoothManager operations the device screen calls from its buttons (its
\* scan button calls startScanning / stopScanning the same way)
ScreenOperations == {"connectToDevice", "disconnectDevice"}

\* `uiTaskRunning = true;`
UIEntry ==
    /\ uiPc = "entry"
    /\ uiTaskRunning' = TRUE
    /\ uiPc' = "while"
    /\ UNCHANGED <<uiMessageQueue, uiUnchanged>>

\* `while (running)`
UIWhile ==
    /\ uiPc = "while"
    /\ uiPc' = IF running THEN "receive" ELSE "exit"
    /\ UNCHANGED <<uiTaskRunning, uiMessageQueue, uiUnchanged>>

\* xQueueReceive(uiMessageQueue, &message, 10 ms): `break` on MSG_SHUTDOWN,
\* handleUIMessage (toasts only) on any other message, or the timeout
UIReceive ==
    /\ uiPc = "receive"
    /\ uiMessageQueue.created
    /\ IF uiMessageQueue.items # <<>>
       THEN /\ uiMessageQueue' = xQueueReceive(uiMessageQueue)
            /\ uiPc' = IF Head(uiMessageQueue.items).type = "MSG_SHUTDOWN"
                       THEN "exit" ELSE "update"
       ELSE /\ uiPc' = "update"
            /\ UNCHANGED uiMessageQueue
    /\ UNCHANGED <<uiTaskRunning, uiUnchanged>>

\* TouchManager/ToastManager/ScreenManager::update, ScreenManager::handleTouch:
\* no button of the device screen was hit; vTaskDelay(20 ms)
UIUpdate ==
    /\ uiPc = "update"
    /\ uiPc' = "while"
    /\ UNCHANGED <<uiTaskRunning, uiMessageQueue, uiUnchanged>>

\* ScreenManager::handleTouch reaches a button of DeviceManagerScreen, whose
\* callback calls the BluetoothManager directly
UIScreenCallsManager(op) ==
    /\ uiPc = "update"
    /\ bluetoothManager
    /\ uiPc' = op
    /\ UNCHANGED <<uiTaskRunning, uiMessageQueue, uiUnchanged>>

\* a screen callback calls BTLoggerApp::onFileOperation (declared among the
\* "callbacks for UI integration"): sendToCommunications(MSG_FILE_OPERATION),
\* the result of the send is not looked at
OnFileOperation(operation) ==
    /\ uiPc = "update"
    /\ fileOpsPosted < MaxFileOps
    /\ fileOpsPosted' = fileOpsPosted + 1
    /\ \E out \in SendTo(communicationsMessageQueue,
                         CoreMessage("MSG_FILE_OPERATION", operation, "path", 0)) :
            communicationsMessageQueue' = out[2]
    /\ uiPc' = "while"
    /\ UNCHANGED <<running, communicationsTaskRunning, uiTaskRunning,
                   communicationsTaskHandle, uiTaskHandle, managerMutex,
                   uiMessageQueue, bluetoothManager, sdCardManager, mainPc, commPc,
                   blePc, commMessage, fileOpsDequeued, fileOpsAnswered,
                   useAfterFree, harnessVars, producerVars, disconnecting, btVars, sessionVars>>

UIScreenCallReturns ==
    /\ uiPc \in ScreenOperations
    /\ uiPc' = "while"
    /\ UNCHANGED <<uiTaskRunning, uiMessageQueue, uiUnchanged>>

\* `uiTaskRunning = false; vTaskDelete(nullptr);`
UIExit ==
    /\ uiPc = "exit"
    /\ uiTaskRunning' = FALSE
    /\ uiPc' = "ended"
    /\ UNCHANGED <<uiMessageQueue, uiUnchanged>>

\* ------------------------------------------------- BTLoggerApp callbacks

bleUnchanged == <<running, communicationsTaskRunning, uiTaskRunning,
                  communicationsTaskHandle, uiTaskHandle, managerMutex,
                  communicationsMessageQueue, bluetoothManager, sdCardManager,
                  mainPc, commPc, uiPc, commMessage, fileOpsPosted,
                  fileOpsDequeued, fileOpsAnswered, useAfterFree, harnessVars, producerVars, disconnecting, btVars, sessionVars>>

\* BluetoothManager::notifyCallback on the BLE host task, after scanning was
\* started: processIncomingData -> logCallback -> BTLoggerApp::onLogReceived,
\* which calls getSDCardManager()->saveLogToSession(packet, deviceName)
OnLogReceived ==
    /\ blePc = "idle"
    /\ bluetoothManager
    /\ sdCardManager
    /\ mainPc \in {"ready"} \cup (StopPcs \ {"stopped"})
    /\ blePc' = "saveLogToSession"
    /\ UNCHANGED <<uiMessageQueue, bleUnchanged>>

\* onLogReceived: sendToUI(MSG_LOG_RECEIVED), the result is not looked at. If
\* the managers were deleted under the callback, what follows is undefined.
OnLogReceivedSendToUI ==
    /\ blePc = "saveLogToSession"
    /\ \E out \in SendTo(uiMessageQueue, CoreMessage("MSG_LOG_RECEIVED", "device", "message", 0)) :
            uiMessageQueue' = out[2]
    /\ blePc' \in (IF useAfterFree THEN {"idle", "crashed"} ELSE {"idle"})
    /\ UNCHANGED bleUnchanged

Next ==
    \/ Initialize
    \/ StartCreateCommunicationsTask
    \/ StartCreateUITask
    \/ StartSetRunning
    \/ AppStartScanning
    \/ AppStartScanningReturn
    \/ StopClearRunning
    \/ StopSendToUI
    \/ StopSendToCommunications
    \/ StopWaitTasksFinished
    \/ StopWaitTimeout
    \/ CleanupTasks
    \/ StopTakeMutex
    \/ StopTeardown
    \/ CommEntry
    \/ CommWhile
    \/ CommReceive
    \/ CommHandleMessage
    \/ CommSendResult
    \/ CommUpdateTake
    \/ CommUpdateGive
    \/ CommExit
    \/ UIEntry
    \/ UIWhile
    \/ UIReceive
    \/ UIUpdate
    \/ \E op \in ScreenOperations : UIScreenCallsManager(op)
    \/ UIScreenCallReturns
    \/ UIExit
    \/ \E operation \in FileOperations : OnFileOperation(operation)
    \/ OnLogReceived
    \/ OnLogReceivedSendToUI

Spec == Init /\ [][Next]_vars

\* ------------------------------------------------------- SDCardManager

\* a closed File object, the empty String
NoFile == <<>>

\* the fields of the manager and the state of the SD library, as one value
\* that the member functions transform
ManagerState ==
    [currentSessionFile |-> currentSessionFile,
     currentDeviceName |-> currentDeviceName,
     currentFile |-> currentFile,
     currentFileSize |-> currentFileSize,
     currentFileNumber |-> currentFileNumber,
     openFiles |-> openFiles,
     files |-> files]

Piece(kind, id, bytes) == [kind |-> kind, id |-> id, bytes |-> bytes]

\* formatTimestamp: `String(timestamp / 1000)`
formatTimestamp(timestamp) == timestamp \div 1000

\* generateLogFileName: logDirectory/safeName_timestamp[_fileNumber].log,
\* where safeName is the device name with " " and "." replaced by "_"
generateLogFileName(deviceName, fileNumber, t) ==
    <<[i \in 1..Len(deviceName) |->
            IF deviceName[i] \in {" ", "."} THEN "_" ELSE deviceName[i]],
      formatTimestamp(t),
      IF fileNumber > 1 THEN fileNumber ELSE 0>>

\* SD.open(path, FILE_WRITE): mode "w" creates the file or truncates it
SDOpen(st, path) ==
    [st EXCEPT !.currentFile = path,
               !.openFiles = @ \cup {path},
               !.files = (path :> <<>>) @@ @]

\* currentFile.print(text) of `bytes` bytes
FilePrint(st, piece) ==
    [st EXCEPT !.files[st.currentFile] = Append(@, piece)]

\* currentFile.close()
FileClose(st) ==
    [st EXCEPT !.openFiles = @ \ {st.currentFile}, !.currentFile = NoFile]

\* closeCurrentFile(): footer "# File closed", close
CloseCurrentFileSkipped(st, card) == st

closeCurrentFile(st, card) ==
    IF st.currentFile # NoFile
    THEN FileClose(IF card THEN FilePrint(st, Piece("closed", 0, 0)) ELSE st)
    ELSE st

\* endCurrentSession() that closes without a footer, and that prints the
\* footer without closing
EndCurrentSessionNoFooter(st, card) ==
    [(IF st.currentFile # NoFile THEN FileClose(st) ELSE st)
        EXCEPT !.currentSessionFile = NoFile,
               !.currentDeviceName = <<>>,
               !.currentFileSize = 0,
               !.currentFileNumber = 0]

EndCurrentSessionLeavesOpen(st, card) ==
    [(IF st.currentFile # NoFile /\ card
      THEN FilePrint(st, Piece("ended", 0, 0))
      ELSE st)
        EXCEPT !.currentSessionFile = NoFile,
               !.currentDeviceName = <<>>,
               !.currentFileSize = 0,
               !.currentFileNumber = 0]

\* endCurrentSession(): footer "# Session ended" and close if a file is open;
\* the session fields are reset in any case
endCurrentSession(st, card) ==
    LET closed == IF st.currentFile # NoFile
                  THEN FileClose(IF card THEN FilePrint(st, Piece("ended", 0, 0)) ELSE st)
                  ELSE st
    IN [closed EXCEPT !.currentSessionFile = NoFile,
                      !.currentDeviceName = <<>>,
                      !.currentFileSize = 0,
                      !.currentFileNumber = 0]

\* startNewSession(deviceName): <<returned value, state after>>
startNewSession(st, deviceName, card, openOk, t) ==
    LET ended == endCurrentSession(st, card)
        path == generateLogFileName(deviceName, 1, t)
        named == [ended EXCEPT !.currentDeviceName = deviceName,
                               !.currentFileNumber = 1,
                               !.currentFileSize = 0,
                               !.currentSessionFile = path]
    IN IF ~card THEN <<FALSE, ended>>
       ELSE IF ~openOk THEN <<FALSE, named>>
       ELSE <<TRUE, [FilePrint(SDOpen(named, path), Piece("header", 0, SessionHeaderLen))
                        EXCEPT !.currentFileSize = SessionHeaderLen]>>

\* rotateLogFile(): <<returned value, state after>>
rotateLogFile(st, card, openOk, t) ==
    IF st.currentFileNumber >= MaxFilesPerSession THEN <<FALSE, st>>
    ELSE LET closed == closeCurrentFile(st, card)
             number == st.currentFileNumber + 1
             path == generateLogFileName(st.currentDeviceName, number, t)
             named == [closed EXCEPT !.currentFileNumber = number,
                                     !.currentSessionFile = path]
         IN IF ~(card /\ openOk) THEN <<FALSE, named>>
            ELSE <<TRUE, [FilePrint(SDOpen(named, path),
                                    Piece("rotated", 0, RotationHeaderLen))
                            EXCEPT !.currentFileSize = RotationHeaderLen]>>

\* the rotation check of saveLogToSession: `currentFileSize > maxFileSize`
NeedsRotation(st, size) == st.currentFileSize > MaxFileSize

\* saveLogToSession(packet, deviceName) for the record `id` whose formatted
\* entry has `size` bytes, of which print() writes `written`:
\* <<returned value, state after, a session was started>>
saveLogToSession(st, id, size, deviceName, card, openOk, written, t) ==
    LET starts == st.currentFile = NoFile \/ st.currentDeviceName # deviceName
        started == IF starts THEN startNewSession(st, deviceName, card, openOk, t)
                   ELSE <<TRUE, st>>
        rotated == IF NeedsRotation(started[2], size)
                   THEN rotateLogFile(started[2], card, openOk, t)
                   ELSE <<TRUE, started[2]>>
    IN IF ~started[1] THEN <<FALSE, started[2], starts>>
       ELSE IF ~rotated[1] THEN <<FALSE, rotated[2], starts>>
       ELSE IF written > 0
            THEN <<TRUE,
                   [FilePrint(rotated[2], Piece("record", id, written))
                        EXCEPT !.currentFileSize = @ + written],
                   starts>>
            ELSE <<FALSE, rotated[2], starts>>

SetManagerState(st) ==
    /\ currentSessionFile' = st.currentSessionFile
    /\ currentDeviceName' = st.currentDeviceName
    /\ currentFile' = st.currentFile
    /\ currentFileSize' = st.currentFileSize
    /\ currentFileNumber' = st.currentFileNumber
    /\ openFiles' = st.openFiles
    /\ files' = st.files

\* BTLoggerApp::onLogReceived(packet, deviceName) ->
\* saveLogToSession(packet, deviceName), for a packet whose formatted entry
\* has `size` bytes; `faults` tells whether SD.open and print() can fail
onLogReceivedUpTo(deviceName, size, faults, cap) ==
    /\ recordsGiven < cap
    /\ \E openOk \in {TRUE} \cup {~faults}, written \in (IF faults THEN 0 ELSE size)..size :
        /\ ~cardPresent => written = 0
        /\ LET id == recordsGiven + 1
               out == saveLogToSession(ManagerState, id, size, deviceName,
                                       cardPresent, openOk, written, millis)
           IN /\ SetManagerState(out[2])
              /\ recordsGiven' = id
              /\ sessionRecords' = (IF out[3] THEN {} ELSE sessionRecords)
                                    \cup (IF out[1] THEN {id} ELSE {})
              /\ sessionRecordBytes' = (IF out[3] THEN 0 ELSE sessionRecordBytes)
                                        + (IF out[1] THEN written ELSE 0)
              /\ saveResult' = [called |-> TRUE, size |-> size,
                                written |-> IF out[1] THEN written ELSE 0,
                                returned |-> out[1]]
    /\ fileResult' = <<>>
    /\ UNCHANGED <<cardPresent, millis>>

onLogReceived(deviceName, size, faults) ==
    onLogReceivedUpTo(deviceName, size, faults, MaxRecords)

SaveLogToSession(deviceName, size) ==
    /\ onLogReceived(deviceName, size, TRUE)
    /\ UNCHANGED <<taskVars, queueVars, harnessVars, producerVars, disconnecting, btVars>>

\* BTLoggerApp::onDeviceConnection(deviceName, connected): startNewSession(
\* deviceName) for a connect, endCurrentSession() for a disconnect; `faults`
\* tells whether SD.open can fail
onDeviceConnection(deviceName, connected, faults) ==
    /\ IF connected
       THEN \E openOk \in {TRUE} \cup {~faults} :
                SetManagerState(startNewSession(ManagerState, deviceName,
                                                cardPresent, openOk, millis)[2])
       ELSE SetManagerState(endCurrentSession(ManagerState, cardPresent))
    /\ sessionRecordBytes' = 0
    /\ sessionRecords' = {}
    /\ saveResult' = NoSave
    /\ fileResult' = <<>>
    /\ UNCHANGED <<cardPresent, millis, recordsGiven>>

\* a device connects
StartNewSession(deviceName) ==
    /\ onDeviceConnection(deviceName, TRUE, TRUE)
    /\ UNCHANGED <<taskVars, queueVars, harnessVars, producerVars, disconnecting, btVars>>

\* a device disconnects
EndCurrentSession ==
    /\ onDeviceConnection(<<>>, FALSE, TRUE)
    /\ UNCHANGED <<taskVars, queueVars, harnessVars, producerVars, disconnecting, btVars>>

\* the card is pulled or put back (SD.cardType() changes)
CardChanges ==
    /\ cardPresent' = ~cardPresent
    /\ saveResult' = NoSave
    /\ fileResult' = <<>>
    /\ UNCHANGED <<taskVars, queueVars, harnessVars, producerVars, disconnecting, btVars, currentSessionFile,
                   currentDeviceName, currentFile, currentFileSize,
                   currentFileNumber, openFiles, files, millis, recordsGiven,
                   sessionRecords, sessionRecordBytes>>

\* half a second passes on the millis() clock
Tick ==
    /\ millis < MaxTicks * 500
    /\ millis' = millis + 500
    /\ saveResult' = NoSave
    /\ fileResult' = <<>>
    /\ UNCHANGED <<taskVars, queueVars, harnessVars, producerVars, disconnecting, btVars, currentSessionFile,
                   currentDeviceName, currentFile, currentFileSize,
                   currentFileNumber, openFiles, files, cardPresent, recordsGiven,
                   sessionRecords, sessionRecordBytes>>

NextSession ==
    \/ \E d \in Devices, size \in RecordSizes : SaveLogToSession(d, size)
    \/ \E d \in Devices : StartNewSession(d)
    \/ EndCurrentSession
    \/ CardChanges
    \/ Tick

SpecSession == Init /\ [][NextSession]_vars

\* ------------------------------------------- SDCardManager, file browsing

\* loadLogFile(path): the lines of the file, one element for each piece
\* that was printed to it (far fewer than the 1000 lines it stops at);
\* nothing if there is no card or SD.open fails
LoadLogFileUnguarded(st, path, card, openOk) ==
    IF path \in DOMAIN st.files THEN st.files[path] ELSE <<>>

loadLogFile(st, path, card, openOk) ==
    IF ~card THEN <<>>
    ELSE IF ~(openOk /\ path \in DOMAIN st.files) THEN <<>>
    ELSE st.files[path]

\* deleteFile(path): <<returned value, state after>>; SD.remove(path)
\* takes the file off the card
deleteFile(st, path, card, removeOk) ==
    IF ~card THEN <<FALSE, st>>
    ELSE IF removeOk /\ path \in DOMAIN st.files
         THEN <<TRUE, [st EXCEPT !.files = [p \in (DOMAIN @) \ {path} |-> @[p]]]>>
         ELSE <<FALSE, st>>

\* listDirectory(path): a FileInfo for each entry of the directory, in the
\* order of the directory; every session file is in logDirectory
listDirectory(st, path, card, openOk) ==
    IF ~card THEN {}
    ELSE IF ~(openOk /\ path = "/logs") THEN {}
    ELSE {[name |-> p, isDirectory |-> FALSE] : p \in DOMAIN st.files}

\* CoreTaskManager::handleCommunicationsMessage, "load"
LoadLogFile(path) ==
    /\ \E openOk \in BOOLEAN :
          fileResult' = [op |-> "loadLogFile", path |-> path,
                         returned |-> loadLogFile(ManagerState, path, cardPresent, openOk)]
    /\ saveResult' = NoSave
    /\ UNCHANGED <<taskVars, queueVars, harnessVars, producerVars, disconnecting, btVars, currentSessionFile,
                   currentDeviceName, currentFile, currentFileSize,
                   currentFileNumber, openFiles, files, cardPresent, millis,
                   recordsGiven, sessionRecords, sessionRecordBytes>>

\* CoreTaskManager::handleCommunicationsMessage, "delete", for a file that
\* is not open
DeleteFile(path) ==
    /\ path \notin openFiles
    /\ \E removeOk \in BOOLEAN :
          LET out == deleteFile(ManagerState, path, cardPresent, removeOk)
          IN /\ SetManagerState(out[2])
             /\ fileResult' = [op |-> "deleteFile", path |-> path, returned |-> out[1]]
    /\ saveResult' = NoSave
    /\ UNCHANGED <<taskVars, queueVars, harnessVars, producerVars, disconnecting, btVars, cardPresent, millis,
                   recordsGiven, sessionRecords, sessionRecordBytes>>

ListDirectory(path) ==
    /\ \E openOk \in BOOLEAN :
          fileResult' = [op |-> "listDirectory", path |-> path,
                         returned |-> listDirectory(ManagerState, path, cardPresent, openOk)]
    /\ saveResult' = NoSave
    /\ UNCHANGED <<taskVars, queueVars, harnessVars, producerVars, disconnecting, btVars, currentSessionFile,
                   currentDeviceName, currentFile, currentFileSize,
                   currentFileNumber, openFiles, files, cardPresent, millis,
                   recordsGiven, sessionRecords, sessionRecordBytes>>

\* listLogFiles(): `return listDirectory(logDirectory);`
ListLogFiles ==
    /\ \E openOk \in BOOLEAN :
          fileResult' = [op |-> "listLogFiles", path |-> "/logs",
                         returned |-> listDirectory(ManagerState, "/logs", cardPresent, openOk)]
    /\ saveResult' = NoSave
    /\ UNCHANGED <<taskVars, queueVars, harnessVars, producerVars, disconnecting, btVars, currentSessionFile,
                   currentDeviceName, currentFile, currentFileSize,
                   currentFileNumber, openFiles, files, cardPresent, millis,
                   recordsGiven, sessionRecords, sessionRecordBytes>>

\* sessions are recorded and ended, the card comes and goes, and the files
\* are browsed: the paths are those of the session files of the first
\* second and one that no file has; the log directory and the root are
\* listed
NextBrowse ==
    \/ \E d \in Devices, size \in RecordSizes : SaveLogToSession(d, size)
    \/ EndCurrentSession
    \/ CardChanges
    \/ \E d \in Devices \cup {<<"n">>}, number \in 1..MaxFilesPerSession :
          LoadLogFile(generateLogFileName(d, number, 0))
    \/ \E d \in Devices \cup {<<"n">>}, number \in 1..MaxFilesPerSession :
          DeleteFile(generateLogFileName(d, number, 0))
    \/ \E path \in {"/logs", "/"} : ListDirectory(path)
    \/ ListLogFiles

SpecBrowse == Init /\ [][NextBrowse]_vars

\* ----------------------------------------------------- BluetoothManager

\* BLEClient objects alive at one time
MaxClients == 2

\* `currentTime - lastScanTime > 30000` in update()
SCAN_RESTART_MS == 30000

\* the devices that advertise near the receiver: two whose names pass the
\* name filter of onDeviceFound, two whose names do not; `service` tells
\* whether the advertisement carries the log service UUID, as that of a
\* producer does whatever name it was given
Advertisers ==
    {[name |-> <<"E", "S", "P", "3", "2">>, address |-> "aa", service |-> TRUE],
     [name |-> <<"x", "_", "v", "1">>, address |-> "bb", service |-> FALSE],
     [name |-> <<"T", "V">>, address |-> "cc", service |-> FALSE],
     [name |-> <<"S", "1">>, address |-> "dd", service |-> TRUE]}

Addresses == {d.address : d \in Advertisers}

\* String::indexOf(pat) >= 0
Contains(str, pat) ==
    \E i \in 1..(Len(str) - Len(pat) + 1) : SubSeq(str, i, i + Len(pat) - 1) = pat

\* the name patterns onDeviceFound accepts
TargetPatterns ==
    {<<"B", "T", "L", "o", "g", "g", "e", "r">>,
     <<"E", "S", "P", "3", "2">>,
     <<"W", "e", "a", "t", "h", "e", "r", "S", "t", "a", "t", "i", "o", "n">>,
     <<"M", "y", "D", "e", "v", "i", "c", "e">>,
     <<"_", "v">>}

isTargetDevice(deviceName) ==
    Len(deviceName) > 0 /\ \E pat \in TargetPatterns : Contains(deviceName, pat)

\* the positions of the entries of a list with this address
IndexOf(list, address) == {i \in 1..Len(list) : list[i].address = address}

First(S) == CHOOSE i \in S : \A j \in S : i <= j

RemoveAt(list, i) == SubSeq(list, 1, i - 1) \o SubSeq(list, i + 1, Len(list))

getConnectedDeviceCount(devices) ==
    Cardinality({i \in 1..Len(devices) : devices[i].connected})

\* `device.address == address && device.connected` for some connected device
AlreadyConnected(address) ==
    \E i \in IndexOf(connectedDevices, address) : connectedDevices[i].connected

\* the BLEClient objects not allocated
FreeClients == (1..MaxClients) \ clients

BtEvent(op, address, returned, callbacks) ==
    [op |-> op, address |-> address, returned |-> returned, callbacks |-> callbacks]

\* a change of availableDevices (clear, or push_back that may reallocate)
\* leaves the targetDevice pointer of a connectToDevice in progress dangling
Invalidate(attempts) ==
    [c \in Contexts |-> IF attempts[c] = NoAttempt THEN NoAttempt
                        ELSE [attempts[c] EXCEPT !.stale = TRUE]]

\* startScanning(): nothing if a scan runs; else the previous results are
\* cleared and a 5 s scan is started
startScanning ==
    IF scanning
    THEN UNCHANGED <<scanning, lastScanTime, availableDevices, connecting>>
    ELSE /\ scanning' = TRUE
         /\ lastScanTime' = millis
         /\ availableDevices' = <<>>
         /\ connecting' = Invalidate(connecting)

\* BTLoggerApp::start, the scan button of the device screen
StartScanning ==
    /\ bluetoothManager
    /\ startScanning
    /\ btEvent' = NoEvent
    /\ UNCHANGED <<taskVars, queueVars, harnessVars, producerVars, disconnecting, sessionVars, connectedDevices,
                   clients, subscribed, lastAutoAttempt, lastNotify>>

\* stopScanning() from the scan button, or scanCompleteCallback after 5 s
StopScanning ==
    /\ bluetoothManager
    /\ scanning
    /\ scanning' = FALSE
    /\ btEvent' = NoEvent
    /\ UNCHANGED <<taskVars, queueVars, harnessVars, producerVars, disconnecting, sessionVars, lastScanTime,
                   availableDevices, connectedDevices, clients, subscribed, connecting, lastAutoAttempt, lastNotify>>

\* connectToDevice(address) up to the blocking client->connect(targetDevice):
\* the already-connected check, the search of the scan results, createClient.
BeginConnect(ctx, address, available, attempts) ==
    IF AlreadyConnected(address)
    THEN /\ btEvent' = BtEvent("connectToDevice", address, TRUE, <<>>)
         /\ connecting' = attempts
         /\ UNCHANGED clients
    ELSE IF IndexOf(available, address) = {}
    THEN /\ btEvent' = BtEvent("connectToDevice", address, FALSE, <<>>)
         /\ connecting' = attempts
         /\ UNCHANGED clients
    ELSE /\ FreeClients # {}
         /\ clients' = clients \cup {First(FreeClients)}
         /\ connecting' = [attempts EXCEPT ![ctx] =
                              [address |-> address, client |-> First(FreeClients),
                               stale |-> FALSE, linkLost |-> FALSE]]
         /\ btEvent' = NoEvent

\* an onDeviceFound that records the device and never connects to it
OnDeviceFoundNoAutoConnect(device) ==
    /\ bluetoothManager
    /\ scanning
    /\ connecting["scan"] = NoAttempt
    /\ IF isTargetDevice(device.name) /\ IndexOf(availableDevices, device.address) = {}
       THEN /\ availableDevices' = Append(availableDevices, device)
            /\ connecting' = Invalidate(connecting)
       ELSE UNCHANGED <<availableDevices, connecting>>
    /\ btEvent' = BtEvent("onDeviceFound", device.address, FALSE, <<>>)
    /\ UNCHANGED <<taskVars, queueVars, harnessVars, producerVars, disconnecting,
                   sessionVars, scanning, lastScanTime, connectedDevices, clients,
                   subscribed, lastAutoAttempt, lastNotify>>

\* BTLoggerScanCallbacks::onResult -> onDeviceFound(advertisedDevice), on the
\* BLE scan task: a new device that passes the name filter is appended to
\* availableDevices, and connectToDevice is called for it at once if no
\* device is connected
OnDeviceFound(device) ==
    /\ bluetoothManager
    /\ scanning
    /\ connecting["scan"] = NoAttempt
    /\ IF isTargetDevice(device.name) /\ IndexOf(availableDevices, device.address) = {}
       THEN /\ availableDevices' = Append(availableDevices, device)
            /\ IF getConnectedDeviceCount(connectedDevices) = 0
               THEN /\ BeginConnect("scan", device.address, availableDevices',
                                    Invalidate(connecting))
                    /\ lastAutoAttempt' = millis
               ELSE /\ connecting' = Invalidate(connecting)
                    /\ btEvent' = BtEvent("onDeviceFound", device.address, FALSE, <<>>)
                    /\ UNCHANGED <<clients, lastAutoAttempt>>
       ELSE /\ btEvent' = BtEvent("onDeviceFound", device.address, FALSE, <<>>)
            /\ UNCHANGED <<availableDevices, connecting, clients, lastAutoAttempt>>
    /\ UNCHANGED <<taskVars, queueVars, harnessVars, producerVars, disconnecting, sessionVars, scanning,
                   lastScanTime, connectedDevices, subscribed, lastNotify>>

\* the addresses connectToDevice and disconnectDevice are called with from
\* the device screen, which passes the address of the tapped entry of its
\* list: one that a device of the scan results has, and one that the scan
\* never reports (the entries refreshDeviceList puts in the list are of the
\* second kind)
ScreenDevices == {"aa", "AA:BB:CC:DD:EE:FF"}

\* DeviceManagerScreen::connectToDevice(address), on the Presentation task,
\* for a tapped entry of the device list
ScreenConnectToDevice(address) ==
    /\ bluetoothManager
    /\ connecting["ui"] = NoAttempt
    /\ BeginConnect("ui", address, availableDevices, connecting)
    /\ UNCHANGED <<taskVars, queueVars, harnessVars, producerVars, disconnecting, sessionVars, scanning,
                   lastScanTime, availableDevices, connectedDevices, subscribed,
                   lastAutoAttempt, lastNotify>>

\* how the blocking part of connectToDevice ends
ConnectOutcomes == {"connect_failed", "no_service", "no_characteristic", "found"}

\* what a dangling targetDevice->getName() can yield: the name that was
\* there, or whatever the memory holds now
DanglingNames(address) ==
    {d.name : d \in {a \in Advertisers : a.address = address}} \cup {<<>>}

\* targetDevice->getName() of the scan result the attempt points to
TargetNames(attempt) ==
    IF attempt.stale THEN DanglingNames(attempt.address)
    ELSE {availableDevices[First(IndexOf(availableDevices, attempt.address))].name}

\* a connectToDevice whose failure paths return without deleting the client
ConnectReturnsKeepsClient(ctx) ==
    /\ connecting[ctx] # NoAttempt
    /\ \E outcome \in ConnectOutcomes, canNotify \in BOOLEAN :
        LET attempt == connecting[ctx] IN
        IF outcome # "found"
        THEN /\ canNotify
             /\ clients' = clients
             /\ btEvent' = BtEvent("connectToDevice", attempt.address, FALSE, <<>>)
             /\ UNCHANGED <<connectedDevices, subscribed>>
        ELSE \E deviceName \in TargetNames(attempt) :
             /\ subscribed' = IF canNotify THEN subscribed \cup {attempt.client}
                              ELSE subscribed
             /\ connectedDevices' =
                    Append(connectedDevices,
                           [name |-> deviceName, address |-> attempt.address,
                            client |-> attempt.client, connected |-> TRUE,
                            lastSeen |-> millis,
                            link |-> ~attempt.linkLost])
             /\ btEvent' = BtEvent("connectToDevice", attempt.address, TRUE,
                                   <<<<deviceName, TRUE>>>>)
             /\ UNCHANGED clients
    /\ connecting' = [connecting EXCEPT ![ctx] = NoAttempt]
    /\ UNCHANGED <<taskVars, queueVars, harnessVars, producerVars, disconnecting, sessionVars, scanning,
                   lastScanTime, availableDevices, lastAutoAttempt,
                   lastNotify>>

\* `link` of an entry is what client->isConnected() of its client reports.
\*
\* connectToDevice(address) from client->connect on: a failed link, a missing
\* service or a missing characteristic delete the client and return false;
\* otherwise the notification is registered if the characteristic can notify,
\* the device is appended to connectedDevices and connectionCallback(name,
\* true) is called
connectToDevice(ctx) ==
    /\ connecting[ctx] # NoAttempt
    /\ \E outcome \in ConnectOutcomes, canNotify \in BOOLEAN :
        LET attempt == connecting[ctx] IN
        IF outcome # "found"
        THEN /\ canNotify
             /\ clients' = clients \ {attempt.client}
             /\ btEvent' = BtEvent("connectToDevice", attempt.address, FALSE, <<>>)
             /\ UNCHANGED <<connectedDevices, subscribed>>
        ELSE \E deviceName \in TargetNames(attempt) :
             /\ subscribed' = IF canNotify THEN subscribed \cup {attempt.client}
                              ELSE subscribed
             /\ connectedDevices' =
                    Append(connectedDevices,
                           [name |-> deviceName, address |-> attempt.address,
                            client |-> attempt.client, connected |-> TRUE,
                            lastSeen |-> millis,
                            link |-> ~attempt.linkLost])
             /\ btEvent' = BtEvent("connectToDevice", attempt.address, TRUE,
                                   <<<<deviceName, TRUE>>>>)
             /\ UNCHANGED clients
    /\ connecting' = [connecting EXCEPT ![ctx] = NoAttempt]
    /\ UNCHANGED <<taskVars, queueVars, harnessVars, producerVars, disconnecting, scanning, lastScanTime,
                   availableDevices, lastAutoAttempt, lastNotify>>

\* connectToDevice returns; what the connection callback does is not part of
\* the manager
ConnectReturns(ctx) ==
    /\ connectToDevice(ctx)
    /\ UNCHANGED sessionVars

\* disconnectDevice(address), from the device screen, for a tapped entry that
\* was shown as connected (its name was among getConnectedDeviceNames() when
\* the button was built): the first entry with the address has its client
\* disconnected and deleted, connectionCallback(name, false) is called and
\* the entry is erased
DisconnectDevice(address) ==
    /\ bluetoothManager
    /\ connecting["ui"] = NoAttempt
    /\ IF IndexOf(connectedDevices, address) = {}
       THEN /\ btEvent' = NoEvent
            /\ UNCHANGED <<connectedDevices, clients, subscribed>>
       ELSE LET i == First(IndexOf(connectedDevices, address))
                it == connectedDevices[i]
            IN /\ clients' = IF it.client # 0 /\ it.connected
                             THEN clients \ {it.client} ELSE clients
               /\ subscribed' = subscribed \ {it.client}
               /\ btEvent' = BtEvent("disconnectDevice", address, FALSE,
                                     <<<<it.name, FALSE>>>>)
               /\ connectedDevices' = RemoveAt(connectedDevices, i)
    /\ UNCHANGED <<taskVars, queueVars, harnessVars, producerVars, disconnecting, sessionVars, scanning,
                   lastScanTime, availableDevices, connecting,
                   lastAutoAttempt, lastNotify>>

\* an onDeviceDisconnected that only reports the disconnect
OnDeviceDisconnectedCallbackOnly(address) ==
    /\ bluetoothManager
    /\ \E i \in IndexOf(connectedDevices, address) : connectedDevices[i].link
    /\ btEvent' = BtEvent("onDeviceDisconnected", address, FALSE,
                          <<<<connectedDevices[First(IndexOf(connectedDevices,
                                                             address))].name,
                              FALSE>>>>)
    /\ UNCHANGED <<taskVars, queueVars, harnessVars, producerVars, disconnecting, sessionVars, scanning,
                   lastScanTime, availableDevices, connectedDevices, clients,
                   subscribed, connecting, lastAutoAttempt, lastNotify>>

\* the peer drops the link: BTLoggerClientCallbacks::onDisconnect ->
\* onDeviceDisconnected(address): the first entry with the address is marked
\* disconnected, connectionCallback(name, false) is called, the client is
\* deleted and the entry erased
onDeviceDisconnected(address) ==
    /\ bluetoothManager
    /\ \E i \in IndexOf(connectedDevices, address) : connectedDevices[i].link
    /\ LET i == First(IndexOf(connectedDevices, address))
           it == connectedDevices[i]
       IN /\ clients' = IF it.client # 0 THEN clients \ {it.client} ELSE clients
          /\ subscribed' = subscribed \ {it.client}
          /\ btEvent' = BtEvent("onDeviceDisconnected", address, FALSE,
                                <<<<it.name, FALSE>>>>)
          /\ connectedDevices' = RemoveAt(connectedDevices, i)
    /\ UNCHANGED <<taskVars, queueVars, harnessVars, producerVars, disconnecting, scanning, lastScanTime,
                   availableDevices, connecting, lastAutoAttempt, lastNotify>>

OnDeviceDisconnected(address) ==
    /\ onDeviceDisconnected(address)
    /\ UNCHANGED sessionVars

\* the peer drops the link while connectToDevice for it has not returned:
\* onDisconnect runs onDeviceDisconnected(address) before the device is in
\* connectedDevices, so the loop finds no entry and nothing is done
LinkLostWhileConnecting(ctx) ==
    /\ bluetoothManager
    /\ connecting[ctx] # NoAttempt
    /\ ~connecting[ctx].linkLost
    /\ IndexOf(connectedDevices, connecting[ctx].address) = {}
    /\ connecting' = [connecting EXCEPT ![ctx].linkLost = TRUE]
    /\ btEvent' = BtEvent("onDeviceDisconnected", connecting[ctx].address, FALSE, <<>>)
    /\ UNCHANGED <<taskVars, queueVars, harnessVars, producerVars, disconnecting, sessionVars, scanning,
                   lastScanTime, availableDevices, connectedDevices, clients,
                   subscribed, lastAutoAttempt, lastNotify>>

\* an update() that restarts the scan whether or not a device is connected
BluetoothUpdateIgnoresConnected ==
    /\ bluetoothManager
    /\ IF ~scanning /\ millis - lastScanTime > SCAN_RESTART_MS
       THEN startScanning
       ELSE UNCHANGED <<scanning, lastScanTime, availableDevices, connecting>>
    /\ connectedDevices' =
           [i \in 1..Len(connectedDevices) |->
               IF connectedDevices[i].connected
               THEN [connectedDevices[i] EXCEPT !.lastSeen = millis]
               ELSE connectedDevices[i]]
    /\ btEvent' = BtEvent("update", "", FALSE, <<>>)
    /\ UNCHANGED <<taskVars, queueVars, harnessVars, producerVars, disconnecting, sessionVars, clients,
                   subscribed, lastAutoAttempt, lastNotify>>

\* BluetoothManager::update(), from the communications loop: the scan is
\* restarted if none runs, the last one started more than 30 s ago and no
\* device is connected; lastSeen of every connected device is refreshed
BluetoothUpdate ==
    /\ bluetoothManager
    /\ IF ~scanning /\ millis - lastScanTime > SCAN_RESTART_MS
          /\ getConnectedDeviceCount(connectedDevices) = 0
       THEN startScanning
       ELSE UNCHANGED <<scanning, lastScanTime, availableDevices, connecting>>
    /\ connectedDevices' =
           [i \in 1..Len(connectedDevices) |->
               IF connectedDevices[i].connected
               THEN [connectedDevices[i] EXCEPT !.lastSeen = millis]
               ELSE connectedDevices[i]]
    /\ btEvent' = BtEvent("update", "", FALSE, <<>>)
    /\ UNCHANGED <<taskVars, queueVars, harnessVars, producerVars, disconnecting, sessionVars, clients,
                   subscribed, lastAutoAttempt, lastNotify>>

\* more than the scan restart interval passes while no scan runs and no
\* device is connected, the situation the restart in update() is for
ScanIntervalPasses ==
    /\ millis <= SCAN_RESTART_MS
    /\ ~scanning
    /\ getConnectedDeviceCount(connectedDevices) = 0
    /\ millis' = millis + SCAN_RESTART_MS + 1
    /\ btEvent' = NoEvent
    /\ UNCHANGED <<taskVars, queueVars, harnessVars, producerVars, disconnecting, currentSessionFile,
                   currentDeviceName, currentFile, currentFileSize,
                   currentFileNumber, openFiles, files, cardPresent, recordsGiven,
                   sessionRecords, sessionRecordBytes, saveResult, fileResult, scanning,
                   lastScanTime, availableDevices, connectedDevices, clients,
                   subscribed, connecting, lastAutoAttempt,
                   lastNotify>>

\* ------------------------------------------------------------ LogPacket

\* sizeof(LogPacket::message) and sizeof(LogPacket::tag), scaled down
MessageSize == 3
TagSize == 7

\* a frame is a sequence of cells: timestamp, level, one padding byte, length,
\* then the bytes of message[] and of tag[]
TimestampCell == 1
LevelCell == 2
PaddingCell == 3
LengthCell == 4
HeaderCells == 4

\* sizeof(LogPacket)
SizeofLogPacket == HeaderCells + MessageSize + TagSize

\* message[i] and tag[i] of a frame, i counted from 0 as in the code
MessageCell(i) == HeaderCells + 1 + i
TagCell(i) == HeaderCells + MessageSize + 1 + i

NUL == 0
Letters == {97, 98}
Bytes == {NUL, 97}

\* BTLogLevel values a producer uses
BT_DEBUG == 1
BT_ERROR == 4
Levels == {BT_DEBUG, BT_ERROR}

\* millis() of the producer when it logs
ProducerMillis == 5

\* char[n] arrays: k letters, then NUL bytes
Filled(n, k) == [i \in 1..n |-> IF i <= k THEN 97 ELSE NUL]

\* the C string an array holds: the bytes before the first NUL
CStr(array) ==
    IF \E i \in 1..Len(array) : array[i] = NUL
    THEN SubSeq(array, 1, First({i \in 1..Len(array) : array[i] = NUL}) - 1)
    ELSE array

\* strncpy(dest, src, n - 1) into a char[n], followed by dest[n - 1] = '\0'
strncpy(n, src) ==
    [i \in 1..n |-> IF i = n THEN NUL
                    ELSE IF i <= Len(src) THEN src[i]
                    ELSE NUL]

\* vsnprintf(dest, n, ...): at most n - 1 characters and a NUL; the bytes
\* after it keep what the stack held
vsnprintf(n, src, rest) ==
    [i \in 1..n |-> IF i <= Len(src) /\ i < n THEN src[i]
                    ELSE IF i = Len(src) + 1 \/ (i = n /\ Len(src) >= n) THEN NUL
                    ELSE rest]

\* strlen(packet.message) after either copy
strlen(array) == Len(CStr(array))

\* a producer that leaves packet.length as the constructor set it
BTLoggerSenderLogLengthUnset(level, tag, message, padding) ==
    <<ProducerMillis, level, padding, 0>>
    \o strncpy(MessageSize, message) \o strncpy(TagSize, tag)

\* BTLoggerSender::log(level, tag, message): the LogPacket handed to
\* setValue(); `padding` is the byte the compiler leaves between level and
\* length, never written
BTLoggerSenderLog(level, tag, message, padding) ==
    LET text == strncpy(MessageSize, message)
    IN <<ProducerMillis, level, padding, strlen(text)>>
       \o text \o strncpy(TagSize, tag)

\* BTLoggerSender::espLogWrite(level, tag, format, ...), message being the
\* formatted text; `garbage` is what the padding byte and the bytes after the
\* text hold
espLogWrite(level, tag, message, garbage) ==
    LET text == vsnprintf(MessageSize, message, garbage)
    IN <<ProducerMillis, level, garbage, strlen(text)>>
       \o text \o strncpy(TagSize, tag)

Rejected == <<>>

\* the deviceName processIncomingData looks up in connectedDevices
DeviceNameOf(deviceAddress) ==
    IF IndexOf(connectedDevices, deviceAddress) = {}
    THEN <<"U", "n", "k", "n", "o", "w", "n">>
    ELSE connectedDevices[First(IndexOf(connectedDevices, deviceAddress))].name

\* the LogPacket fields of a frame of at least sizeof(LogPacket) cells
PacketOf(data) ==
    [timestamp |-> data[TimestampCell],
     level |-> data[LevelCell],
     length |-> data[LengthCell],
     message |-> SubSeq(data, MessageCell(0), MessageCell(MessageSize - 1)),
     tag |-> SubSeq(data, TagCell(0), TagCell(TagSize - 1))]

\* a receiver that validates the frame but delivers its bytes as received
ProcessIncomingDataUnterminated(deviceAddress, data) ==
    IF Len(data) < SizeofLogPacket THEN Rejected
    ELSE IF data[LengthCell] > MessageSize - 1 THEN Rejected
    ELSE <<[packet |-> PacketOf(data), deviceName |-> DeviceNameOf(deviceAddress)]>>

\* a receiver that does not look at the declared length
ProcessIncomingDataUnchecked(deviceAddress, data) ==
    IF Len(data) < SizeofLogPacket THEN Rejected
    ELSE LET terminated == [data EXCEPT ![MessageCell(data[LengthCell])] = NUL,
                                        ![TagCell(TagSize - 1)] = NUL]
         IN <<[packet |-> PacketOf(terminated),
               deviceName |-> DeviceNameOf(deviceAddress)]>>

\* processIncomingData(deviceAddress, data, length): what is handed to
\* logCallback, Rejected if nothing is. A frame shorter than the packet is
\* rejected, and so is a declared length beyond the message capacity;
\* otherwise message[length] and the last byte of tag are set to NUL and the
\* packet is delivered with the name of the device.
processIncomingData(deviceAddress, data) ==
    IF Len(data) < SizeofLogPacket THEN Rejected
    ELSE IF data[LengthCell] > MessageSize - 1 THEN Rejected
    ELSE LET terminated == [data EXCEPT ![MessageCell(data[LengthCell])] = NUL,
                                        ![TagCell(TagSize - 1)] = NUL]
         IN <<[packet |-> PacketOf(terminated),
               deviceName |-> DeviceNameOf(deviceAddress)]>>

\* frames of exactly sizeof(LogPacket) cells, whatever they hold
FullFrames ==
    {<<ProducerMillis, BT_ERROR, NUL, length>> \o Filled(MessageSize, m)
        \o Filled(TagSize, k) :
        length \in 0..(MessageSize + 1), m \in 0..MessageSize, k \in {0, TagSize}}

\* frames one cell longer than the packet
LongFrames ==
    {<<ProducerMillis, BT_ERROR, NUL, length>> \o Filled(MessageSize, k)
        \o Filled(TagSize, TagSize) \o <<97>> :
        length \in 0..(MessageSize + 1), k \in {0, MessageSize}}

\* frames shorter than the packet: plain text of a legacy producer
TextFrames == UNION {[1..k -> Letters] : k \in 1..MessageSize}

\* a link to this address exists whose characteristic notifies
Notifying(address) ==
    \E i \in IndexOf(connectedDevices, address) :
        connectedDevices[i].client \in subscribed

\* a frame of at least the packet size whose declared length is beyond the
\* message capacity
Oversize(data) ==
    Len(data) >= SizeofLogPacket /\ data[LengthCell] > MessageSize - 1

\* the outcome of notifyCallback(characteristic, data, length, isNotify) ->
\* processIncomingData(deviceAddress, data, length); `sent` is what the
\* producer logged, if the frame comes from one; `droppedBefore` is the
\* device of the previous notification if that was an oversize frame
Notification(address, data, sent) ==
    [address |-> address, data |-> data, sent |-> sent,
     delivered |-> processIncomingData(address, data),
     droppedBefore |-> IF Oversize(lastNotify.data) THEN lastNotify.address ELSE ""]

\* what a producer is asked to log
ProducerTags == {Filled(k, k) : k \in {1, TagSize - 1}}
ProducerMessages ==
    {[i \in 1..k |-> IF i = 1 THEN 98 ELSE 97] : k \in 0..MessageSize}

Logged(level, tag, message) ==
    <<[timestamp |-> ProducerMillis, level |-> level, tag |-> tag,
       message |-> message]>>

\* a notification with an arbitrary frame
NotifyCallback(address) ==
    /\ bluetoothManager
    /\ Notifying(address)
    /\ \E data \in FullFrames \cup LongFrames \cup TextFrames :
        lastNotify' = Notification(address, data, <<>>)
    /\ btEvent' = NoEvent
    /\ UNCHANGED <<taskVars, queueVars, harnessVars, producerVars, disconnecting, sessionVars, scanning,
                   lastScanTime, availableDevices, connectedDevices, clients,
                   subscribed, connecting, lastAutoAttempt>>

\* a producer logs through BTLoggerSender::log and the frame is notified
ProducerLogs(address) ==
    /\ bluetoothManager
    /\ Notifying(address)
    /\ \E level \in Levels, tag \in ProducerTags, message \in ProducerMessages,
          padding \in Bytes :
        lastNotify' = Notification(address,
                                   BTLoggerSenderLog(level, tag, message, padding),
                                   Logged(level, tag, message))
    /\ btEvent' = NoEvent
    /\ UNCHANGED <<taskVars, queueVars, harnessVars, producerVars, disconnecting, sessionVars, scanning,
                   lastScanTime, availableDevices, connectedDevices, clients,
                   subscribed, connecting, lastAutoAttempt>>

\* a producer logs through an ESP_LOGx macro and the frame is notified
ProducerEspLogs(address) ==
    /\ bluetoothManager
    /\ Notifying(address)
    /\ \E level \in Levels, tag \in ProducerTags, message \in ProducerMessages,
          garbage \in Bytes :
        lastNotify' = Notification(address,
                                   espLogWrite(level, tag, message, garbage),
                                   Logged(level, tag, message))
    /\ btEvent' = NoEvent
    /\ UNCHANGED <<taskVars, queueVars, harnessVars, producerVars, disconnecting, sessionVars, scanning,
                   lastScanTime, availableDevices, connectedDevices, clients,
                   subscribed, connecting, lastAutoAttempt>>

NextDecode ==
    \/ Initialize
    \/ StartScanning
    \/ \E device \in Advertisers : OnDeviceFound(device)
    \/ \E ctx \in Contexts : ConnectReturns(ctx)
    \/ \E address \in Addresses : OnDeviceDisconnected(address)
    \/ \E address \in Addresses : NotifyCallback(address)
    \/ \E address \in Addresses : ProducerLogs(address)
    \/ \E address \in Addresses : ProducerEspLogs(address)

SpecDecode == Init /\ [][NextDecode]_vars

NextBluetooth ==
    \/ Initialize
    \/ StartScanning
    \/ StopScanning
    \/ \E device \in Advertisers : OnDeviceFound(device)
    \/ \E address \in ScreenDevices : ScreenConnectToDevice(address)
    \/ \E ctx \in Contexts : ConnectReturns(ctx)
    \/ \E address \in ScreenDevices : DisconnectDevice(address)
    \/ \E address \in Addresses : OnDeviceDisconnected(address)
    \/ BluetoothUpdate
    \/ ScanIntervalPasses

SpecBluetooth == Init /\ [][NextBluetooth]_vars

\* scanning and automatic connection, without the device screen; the
\* communications loop calls update() on every iteration
NextScan ==
    \/ Initialize
    \/ StartScanning
    \/ StopScanning
    \/ \E device \in Advertisers : OnDeviceFound(device)
    \/ \E ctx \in Contexts : ConnectReturns(ctx)
    \/ \E address \in Addresses : OnDeviceDisconnected(address)
    \/ BluetoothUpdate
    \/ ScanIntervalPasses

SpecScan == Init /\ [][NextScan]_vars /\ WF_vars(BluetoothUpdate)

\* the same, with peers that can drop the link during the connection attempt
NextLinkLoss ==
    \/ NextBluetooth
    \/ \E ctx \in Contexts : LinkLostWhileConnecting(ctx)

SpecLinkLoss == Init /\ [][NextLinkLoss]_vars

\* ------------------------------------------------------------ BTLoggerApp

\* The application sets onDeviceConnection and onLogReceived as the callbacks
\* of the manager (BTLoggerApp::initialize), so each runs inside the manager
\* operation that calls it. Here the card stays in and SD.open and print()
\* succeed.

\* connectToDevice returns; connectionCallback(name, true), if called, runs
\* onDeviceConnection
DeviceConnects(ctx) ==
    /\ connectToDevice(ctx)
    /\ IF btEvent'.callbacks = <<>>
       THEN UNCHANGED sessionVars
       ELSE onDeviceConnection(btEvent'.callbacks[1][1], btEvent'.callbacks[1][2], FALSE)

\* the peer drops the link; connectionCallback(name, false) runs
\* onDeviceConnection
DeviceDisconnects(address) ==
    /\ onDeviceDisconnected(address)
    /\ onDeviceConnection(btEvent'.callbacks[1][1], btEvent'.callbacks[1][2], FALSE)

\* a connected producer logs one message; notifyCallback decodes the frame
\* and logCallback(packet, deviceName) runs onLogReceived
LogReceived(address) ==
    /\ bluetoothManager
    /\ Notifying(address)
    /\ lastNotify' = Notification(address,
                                  BTLoggerSenderLog(BT_ERROR, Filled(1, 1), <<98>>, NUL),
                                  Logged(BT_ERROR, Filled(1, 1), <<98>>))
    /\ btEvent' = NoEvent
    /\ IF lastNotify'.delivered = <<>>
       THEN UNCHANGED sessionVars
       ELSE onLogReceived(lastNotify'.delivered[1].deviceName,
                          strlen(lastNotify'.delivered[1].packet.message) + 1, FALSE)
    /\ UNCHANGED <<taskVars, queueVars, harnessVars, producerVars, disconnecting, scanning, lastScanTime,
                   availableDevices, connectedDevices, clients, subscribed,
                   connecting, lastAutoAttempt>>

\* the devices that pass the name filter are in range, and the device
\* screen asks for the one it can
NextApp ==
    \/ Initialize
    \/ StartScanning
    \/ \E device \in {a \in Advertisers : isTargetDevice(a.name)} : OnDeviceFound(device)
    \/ \E address \in ScreenDevices \cap Addresses : ScreenConnectToDevice(address)
    \/ \E ctx \in Contexts : DeviceConnects(ctx)
    \/ \E address \in Addresses : DeviceDisconnects(address)
    \/ \E address \in Addresses : LogReceived(address)
    \/ \E ctx \in Contexts : LinkLostWhileConnecting(ctx)

SpecApp == Init /\ [][NextApp]_vars

\* ------------------------------------------------------------ C8 - C10

\* C8: at most one session file is open at any time, and it is the one the
\* manager writes to: every other file was closed before it was opened.
C8_AtMostOneOpenSession ==
    /\ Cardinality(openFiles) <= 1
    /\ openFiles = (IF currentFile = NoFile THEN {} ELSE {currentFile})

\* a rotation happened: the second file of the session is open and the first
\* one, closed with its footer, is still on the card
C8_Witness ==
    /\ currentFileNumber = 2
    /\ currentFile # NoFile
    /\ \E f \in DOMAIN files :
        /\ f # currentFile
        /\ f[1] = currentFile[1]
        /\ files[f] # <<>>
        /\ files[f][Len(files[f])].kind = "closed"

\* C9: rotation is decided before each write from the size the file would
\* reach, so the bytes accounted to the open session file never exceed the
\* rotation threshold.
C9_FileNeverExceedsThreshold ==
    currentFile # NoFile => currentFileSize <= MaxFileSize

\* the number of pieces of record `id` found in the files on the card
Copies(id) ==
    LET PiecesIn(f) == {i \in 1..Len(files[f]) :
                            files[f][i].kind = "record" /\ files[f][i].id = id}
        Sum[S \in SUBSET DOMAIN files] ==
            IF S = {} THEN 0
            ELSE LET f == CHOOSE x \in S : TRUE
                 IN Cardinality(PiecesIn(f)) + Sum[S \ {f}]
    IN Sum[DOMAIN files]

\* C10: once the records appended in a session add up to more than the
\* threshold, the session has a second file (sequence number 2 or more), and
\* every record whose append returned true is in the files exactly once.
C10_RotationOpensSecondFile ==
    /\ sessionRecordBytes > MaxFileSize => currentFileNumber >= 2
    /\ \A id \in sessionRecords : Copies(id) = 1

\* ------------------------------------------------------------ C11

\* C11: saveLogToSession returns true only if print() wrote the whole
\* formatted entry; a write of fewer bytes than the entry makes it return false.
C11_WholeRecordWrites ==
    saveResult.called =>
        (saveResult.returned <=> saveResult.written = saveResult.size)

\* ------------------------------------------------------------ C1 - C4, C7

\* a loop has left `while (running)`: it is about to delete itself, has
\* deleted itself, or was deleted by cleanupTasks
LoopTerminated(pc) == pc \in {"exit", "ended", "deleted"}

HasShutdown(q) == \E i \in 1..Len(q.items) : q.items[i].type = "MSG_SHUTDOWN"

\* C1: no loop has terminated while a Shutdown message enqueued for it is
\* still in its mailbox, not dequeued.
C1_ShutdownObservedBeforeTermination ==
    /\ LoopTerminated(commPc) => ~HasShutdown(communicationsMessageQueue)
    /\ LoopTerminated(uiPc) => ~HasShutdown(uiMessageQueue)

\* C2: stop() always returns: whenever stop() waits for the manager mutex
\* (portMAX_DELAY) after cleanupTasks, the mutex is free or is held by a
\* context that still runs and will give it back.
C2_StopReturns ==
    mainPc = "stop_takeMutex" =>
        \/ managerMutex = "free"
        \/ managerMutex = "comm" /\ ~LoopTerminated(commPc)

\* C3: neither loop terminates before stop() was called (a Shutdown message
\* is only ever sent by stop()).
C3_LoopsRunUntilStop ==
    (LoopTerminated(commPc) \/ LoopTerminated(uiPc)) => mainPc \in StopPcs

\* the contexts that are inside an operation of the BluetoothManager
InBluetoothManager ==
    {c \in {"main", "comm", "ui"} :
        \/ c = "main" /\ mainPc = "startScanning"
        \/ c = "comm" /\ commPc = "updating"
        \/ c = "ui" /\ uiPc \in ScreenOperations}

\* the contexts that are inside an operation of the SDCardManager
InSDCardManager ==
    {c \in {"comm", "ble"} :
        \/ c = "comm" /\ commPc = "fileop_sendToUI"
        \/ c = "ble" /\ blePc = "saveLogToSession"}

\* C4: only the Communications loop is ever inside an operation of the
\* BluetoothManager or of the SDCardManager (so no two contexts are inside
\* the same manager at the same time).
C4_ManagersOwnedByCommunicationsLoop ==
    /\ InBluetoothManager \subseteq {"comm"}
    /\ InSDCardManager \subseteq {"comm"}

\* C7: while the system runs (stop() not called), every load/delete file
\* operation the Communications loop dequeued and finished handling has exactly
\* one result message enqueued for the Presentation mailbox.
C7_FileOperationAnswered ==
    (mainPc = "ready" /\ commPc \notin {"handle", "fileop_sendToUI"}) =>
        fileOpsAnswered = fileOpsDequeued

\* ------------------------------------------------------------ C5, C6

\* C5: sendToUI / sendToCommunications never block indefinitely: a call in
\* progress can always return; a call that returns while its mailbox is full
\* (or was never created) returns false and leaves the mailbox unchanged; a
\* call that returns while its mailbox has room has enqueued the message once
\* and returns true.
C5_SendReturnsWithinTimeout ==
    /\ [](\A s \in Senders : senderPc[s] # "idle" => ENABLED SenderReturn(s))
    /\ [][\A s \in Senders :
            (senderPc[s] # "idle" /\ senderPc'[s] = "idle") =>
                LET mb == TargetOf(s)
                    id == sendCount[mb] + 1
                    q == QueueOf(mb)
                IN IF q.created /\ ~QueueFull(q)
                   THEN /\ QueueAfter(mb).items =
                              Append(q.items, CoreMessage("MSG_UI_EVENT", "", "", id))
                        /\ id \in sendOk'[mb]
                   ELSE /\ QueueAfter(mb) = q
                        /\ id \in sendFailed'[mb]]_vars

\* a send on a full mailbox returned false after ten sends returned true, and
\* the loop received a message afterwards
C5_Witness ==
    \E mb \in Mailboxes :
        /\ QueueOf(mb).created
        /\ sendOk[mb] = 1..QUEUE_LENGTH
        /\ sendFailed[mb] = {QUEUE_LENGTH + 1}
        /\ Len(received[mb]) = 1

\* C6: a mailbox never holds more than 10 messages; more than 10 sends to a
\* mailbox from which nothing was received include a failed send; and the
\* messages received plus the messages still queued are exactly the messages
\* of the successful sends, each once (none duplicated, none of a failed send).
C6_MailboxBackpressure ==
    \A mb \in Mailboxes :
        LET all == received[mb] \o IdsIn(QueueOf(mb))
        IN /\ Len(QueueOf(mb).items) <= QUEUE_LENGTH
           /\ (sendCount[mb] > QUEUE_LENGTH /\ received[mb] = <<>>) => sendFailed[mb] # {}
           /\ Len(all) = Cardinality(sendOk[mb])
           /\ {all[i] : i \in 1..Len(all)} = sendOk[mb]
           /\ sendOk[mb] \cap sendFailed[mb] = {}

\* eleven sends to one mailbox, none received: ten queued, the eleventh failed
C6_Witness ==
    \E mb \in Mailboxes :
        /\ sendCount[mb] = QUEUE_LENGTH + 1
        /\ received[mb] = <<>>
        /\ Len(QueueOf(mb).items) = QUEUE_LENGTH
        /\ sendFailed[mb] = {QUEUE_LENGTH + 1}

\* ------------------------------------------------------------------- C12

\* C12: for every inbound frame at least as long as the packet, whatever it
\* holds, processIncomingData either rejects it or hands the log callback a
\* packet whose tag holds a NUL within its TagSize bytes and whose message
\* holds a NUL within its MessageSize bytes.
C12_DeliveredStringsTerminated ==
    (Len(lastNotify.data) >= SizeofLogPacket /\ lastNotify.delivered # Rejected) =>
        LET packet == lastNotify.delivered[1].packet
        IN /\ Len(packet.tag) = TagSize
           /\ Len(packet.message) = MessageSize
           /\ \E i \in 1..TagSize : packet.tag[i] = NUL
           /\ \E i \in 1..MessageSize : packet.message[i] = NUL

\* a frame that arrived with no NUL in its tag bytes nor in its message bytes
\* was delivered
C12_Witness ==
    /\ Len(lastNotify.data) = SizeofLogPacket
    /\ \A i \in (HeaderCells + 1)..SizeofLogPacket : lastNotify.data[i] # NUL
    /\ lastNotify.delivered # Rejected

\* ------------------------------------------------------------------- C13

\* C13: a frame of at least the packet size whose declared length exceeds the
\* message capacity is dropped: nothing is handed to the log callback for it,
\* the step that receives it leaves availableDevices and connectedDevices as
\* they were, and a well-formed frame that is the next notification, from the
\* same or from another device, is handed to the log callback.
C13_OversizeFrameDropped ==
    /\ [](/\ Oversize(lastNotify.data) => lastNotify.delivered = Rejected
          /\ (/\ lastNotify.droppedBefore # ""
              /\ Len(lastNotify.data) >= SizeofLogPacket
              /\ ~Oversize(lastNotify.data)) => lastNotify.delivered # Rejected)
    /\ [][(lastNotify' # lastNotify /\ Oversize(lastNotify'.data)) =>
              /\ availableDevices' = availableDevices
              /\ connectedDevices' = connectedDevices]_vars

\* after an oversize frame of one device was dropped, the next notification, a
\* well-formed frame of another device, was delivered
C13_Witness ==
    /\ lastNotify.droppedBefore # ""
    /\ lastNotify.droppedBefore # lastNotify.address
    /\ lastNotify.delivered # Rejected

\* ------------------------------------------------------------------- C14

\* C14: every inbound frame shorter than the packet is treated as a plain-text
\* frame: the log callback receives a packet with level Info (1), tag
\* "REMOTE" and a message equal to the frame bytes cut to the message
\* capacity.
C14_ShortFrameIsLegacyText ==
    (lastNotify.data # <<>> /\ Len(lastNotify.data) < SizeofLogPacket) =>
        /\ lastNotify.delivered # Rejected
        /\ LET packet == lastNotify.delivered[1].packet
               data == lastNotify.data
               capacity == MessageSize - 1
           IN /\ packet.level = 1
              /\ CStr(packet.tag) = <<82, 69, 77, 79, 84, 69>>
              /\ CStr(packet.message) =
                     SubSeq(data, 1, IF Len(data) < capacity THEN Len(data)
                                     ELSE capacity)

\* ------------------------------------------------------------------- C15

\* C15: round trip. A record that a producer encodes into a LogPacket
\* (BTLoggerSender::log or espLogWrite) from a level, a tag of at most
\* TagSize - 1 bytes and a message of at most MessageSize - 1 bytes is handed
\* by processIncomingData to the log callback with the same timestamp, level,
\* tag and message.
C15_RoundTrip ==
    (/\ lastNotify.sent # <<>>
     /\ Len(lastNotify.sent[1].tag) <= TagSize - 1
     /\ Len(lastNotify.sent[1].message) <= MessageSize - 1) =>
        /\ lastNotify.delivered # Rejected
        /\ LET packet == lastNotify.delivered[1].packet
               sent == lastNotify.sent[1]
           IN /\ packet.timestamp = sent.timestamp
              /\ packet.level = sent.level
              /\ CStr(packet.tag) = sent.tag
              /\ CStr(packet.message) = sent.message

\* a record with the longest tag and the longest message that fit, encoded
\* into a packet whose unwritten bytes are not zero, was delivered
C15_Witness ==
    /\ lastNotify.sent # <<>>
    /\ Len(lastNotify.sent[1].tag) = TagSize - 1
    /\ Len(lastNotify.sent[1].message) = MessageSize - 1
    /\ lastNotify.data[PaddingCell] # NUL
    /\ lastNotify.delivered # Rejected

\* ------------------------------------------------------------------- C16

\* C16: a connectToDevice(address) that fails at any step (address not among
\* the scan results, link not established, service or characteristic not
\* found) returns false and rolls back: the client it created is deleted,
\* connectedDevices is unchanged, no connection callback is called, and
\* availableDevices still holds what it held, so the device can be retried.
C16_FailedConnectRollsBack ==
    [][(btEvent'.op = "connectToDevice" /\ ~btEvent'.returned) =>
          /\ clients' \subseteq clients
          /\ \A ctx \in Contexts :
                (connecting[ctx] # NoAttempt /\ connecting'[ctx] = NoAttempt) =>
                    connecting[ctx].client \notin clients'
          /\ connectedDevices' = connectedDevices
          /\ btEvent'.callbacks = <<>>
          /\ availableDevices' = availableDevices]_vars

\* a connectToDevice for a device of the scan results has returned false
\* (link, service or characteristic failed) and no client is left
C16_Witness ==
    /\ btEvent.op = "connectToDevice"
    /\ ~btEvent.returned
    /\ IndexOf(availableDevices, btEvent.address) # {}
    /\ clients = {}
    /\ connectedDevices = <<>>

\* ------------------------------------------------------------------- C17

\* C17: a device is in connectedDevices as connected, the connection callback
\* having been called with true, only after the link is up, the log
\* characteristic is resolved and the notification subscription for it is
\* registered: the client of every connected device exists and has
\* notifyCallback registered.
C17_ConnectedOnlyAfterSubscription ==
    \A i \in 1..Len(connectedDevices) :
        connectedDevices[i].connected =>
            /\ connectedDevices[i].client \in clients
            /\ connectedDevices[i].client \in subscribed

\* ------------------------------------------------------------------- C18

\* C18: on every disconnect of a connected device, by the peer
\* (onDeviceDisconnected) or explicit (disconnectDevice), the client of the
\* device is deleted, getConnectedDeviceCount drops by one and the connection
\* callback is called with false.
C18_DisconnectReleasesLink ==
    [][(/\ btEvent'.op \in {"disconnectDevice", "onDeviceDisconnected"}
        /\ \E i \in IndexOf(connectedDevices, btEvent'.address) :
              connectedDevices[i].connected) =>
          LET it == connectedDevices[First(IndexOf(connectedDevices,
                                                   btEvent'.address))]
          IN /\ it.client \notin clients'
             /\ getConnectedDeviceCount(connectedDevices') =
                    getConnectedDeviceCount(connectedDevices) - 1
             /\ btEvent'.callbacks = <<<<it.name, FALSE>>>>]_vars

\* the peer of the only connected device has dropped the link
C18_Witness ==
    /\ btEvent.op = "onDeviceDisconnected"
    /\ btEvent.callbacks # <<>>
    /\ connectedDevices = <<>>
    /\ clients = {}

\* ------------------------------------------------------------------- C19

\* the retry interval of automatic connection attempts
AUTO_CONNECT_RETRY_MS == 3000

\* C19: an automatic connection attempt (one started from onDeviceFound)
\* starts only when no device is connected, targets the oldest entry of
\* availableDevices, and starts at least 3 s after the previous automatic
\* attempt.
C19_AutoConnectPolicy ==
    [][(connecting["scan"] = NoAttempt /\ connecting'["scan"] # NoAttempt) =>
          /\ getConnectedDeviceCount(connectedDevices) = 0
          /\ connecting'["scan"].address = availableDevices'[1].address
          /\ lastAutoAttempt # Never =>
                millis - lastAutoAttempt >= AUTO_CONNECT_RETRY_MS]_vars

\* ------------------------------------------------------------------- C20

\* C20: at most one execution of connectToDevice is in progress at any time,
\* whether started from the scan callback or from the device screen.
C20_OneConnectionAttemptAtATime ==
    Cardinality({ctx \in Contexts : connecting[ctx] # NoAttempt}) <= 1

\* ------------------------------------------------------------------- C21

\* C21: health check. If an entry of connectedDevices is marked connected
\* while the platform reports its link as not connected, the next update()
\* leaves no connected entry for that client and calls the connection
\* callback with false for that device.
C21_HealthCheck ==
    [][btEvent'.op = "update" =>
          \A i \in 1..Len(connectedDevices) :
              (connectedDevices[i].connected /\ ~connectedDevices[i].link) =>
                  /\ \A j \in 1..Len(connectedDevices') :
                        connectedDevices'[j].client = connectedDevices[i].client =>
                            ~connectedDevices'[j].connected
                  /\ \E k \in 1..Len(btEvent'.callbacks) :
                        btEvent'.callbacks[k] = <<connectedDevices[i].name, FALSE>>]_vars

\* ------------------------------------------------------------------- C22

\* update() is due to restart the scan: no scan runs, the last one started
\* more than the timeout ago, and no device is connected
RestartDue ==
    /\ ~scanning
    /\ millis - lastScanTime > SCAN_RESTART_MS
    /\ getConnectedDeviceCount(connectedDevices) = 0

\* C22: update() starts a scan exactly when no scan runs, the idle timeout has
\* elapsed and no device is connected (so never while a device is connected);
\* and whenever that holds, a scan is started, unless a device gets connected
\* first.
C22_UpdateRestartsScanning ==
    /\ [][btEvent'.op = "update" => ((~scanning /\ scanning') <=> RestartDue)]_vars
    /\ (bluetoothManager /\ RestartDue) ~>
           (scanning \/ getConnectedDeviceCount(connectedDevices) > 0)

\* update() has restarted the scan after the timeout: the scan that runs was
\* started by the last step, an update(), later than the first one
C22_Witness ==
    /\ btEvent.op = "update"
    /\ scanning
    /\ lastScanTime = millis
    /\ millis > SCAN_RESTART_MS

\* ------------------------------------------------------------------- C23

C24_CandidateFilter ==
    /\ [](\A i \in 1..Len(availableDevices) :
            \/ availableDevices[i].service
            \/ \E pat \in TargetPatterns : Contains(availableDevices[i].name, pat))
    /\ [][btEvent'.op = "onDeviceFound" =>
            \A device \in Advertisers :
                device.address = btEvent'.address =>
                    IF \/ device.service
                       \/ \E pat \in TargetPatterns : Contains(device.name, pat)
                    THEN IndexOf(availableDevices', device.address) # {}
                    ELSE availableDevices' = availableDevices]_vars

\* ------------------------------------------------------------------- C25

\* C25: the session of a device, with the store present. When a device
\* connects, the connection callback is called with (name, true) and a
\* session file of that name is open and holds its header. Each record then
\* received from the device is handed to onLogReceived and is the last entry
\* of the open session file of that name. When the device disconnects, the
\* callback is called with (name, false), so no device whose link is down
\* stays in connectedDevices as connected; a session of that name that was
\* open has got its footer and is closed, and no session of that name is
\* open afterwards.
C25_SessionScenario ==
    /\ [](\A i \in 1..Len(connectedDevices) :
            connectedDevices[i].connected => connectedDevices[i].link)
    /\ [][/\ (btEvent'.op = "connectToDevice" /\ btEvent'.callbacks # <<>>) =>
               /\ btEvent'.callbacks = <<<<currentDeviceName', TRUE>>>>
               /\ currentFile' \in openFiles'
               /\ files'[currentFile'] = <<Piece("header", 0, SessionHeaderLen)>>
          /\ (lastNotify' # lastNotify \/ recordsGiven' # recordsGiven) =>
               /\ lastNotify'.delivered # <<>>
               /\ recordsGiven' = recordsGiven + 1
               /\ saveResult'.returned
               /\ currentDeviceName' = lastNotify'.delivered[1].deviceName
               /\ currentFile' \in openFiles'
               /\ files'[currentFile'][Len(files'[currentFile'])] =
                       Piece("record", recordsGiven', saveResult'.size)
          /\ (/\ btEvent'.op = "onDeviceDisconnected"
              /\ IndexOf(connectedDevices, btEvent'.address) # {}) =>
               /\ Len(btEvent'.callbacks) = 1
               /\ btEvent'.callbacks[1][2] = FALSE
               /\ ~(/\ currentFile' # NoFile
                    /\ currentDeviceName' = btEvent'.callbacks[1][1])
               /\ \/ currentFile = NoFile
                  \/ currentDeviceName # btEvent'.callbacks[1][1]
                  \/ /\ currentFile \notin openFiles'
                     /\ files'[currentFile][Len(files'[currentFile])] =
                             Piece("ended", 0, 0)]_vars

\* ------------------------------------------------------------------- C26

C27_PathsNeverReused ==
    [][\A path \in DOMAIN files :
          /\ path \in DOMAIN files'
          /\ Len(files'[path]) >= Len(files[path])
          /\ SubSeq(files'[path], 1, Len(files[path])) = files[path]]_vars


\* ------------------------------------------------------------- C28

\* the first thing in the file is the header of startNewSession or of
\* rotateLogFile, and nothing later is one
HeaderFirst(content) ==
    /\ content # <<>>
    /\ content[1].kind \in {"header", "rotated"}
    /\ \A i \in 2..Len(content) : content[i].kind \notin {"header", "rotated"}

\* the last thing in the file is the footer of endCurrentSession or of
\* closeCurrentFile, and nothing earlier is one
FooterLast(content) ==
    /\ content # <<>>
    /\ content[Len(content)].kind \in {"ended", "closed"}
    /\ \A i \in 1..(Len(content) - 1) : content[i].kind \notin {"ended", "closed"}

EndedOnce == endCurrentSession(ManagerState, cardPresent)

C30_MissingStoreTolerated ==
    [][(/\ fileResult' # <<>>
        /\ ~cardPresent) =>
           /\ fileResult'.op = "loadLogFile" => fileResult'.returned = <<>>
           /\ fileResult'.op = "deleteFile" => fileResult'.returned = FALSE
           /\ fileResult'.op \in {"listDirectory", "listLogFiles"} =>
                 fileResult'.returned = {}
           /\ UNCHANGED <<currentSessionFile, currentDeviceName, currentFile,
                          currentFileSize, currentFileNumber, openFiles, files>>]_vars

\* with a session open and the card gone, loadLogFile was called for the
\* file of the session, which has a record in it, and returned nothing
C30_Witness ==
    /\ ~cardPresent
    /\ currentFile # NoFile
    /\ fileResult # <<>>
    /\ fileResult.op = "loadLogFile"
    /\ fileResult.path = currentFile
    /\ Len(files[currentFile]) >= 2
    /\ fileResult.returned = <<>>


\* ------------------------------------------------------------- C31

\* the steps of the communications task and of the UI task
runCommunicationsLoop ==
    \/ CommEntry \/ CommWhile \/ CommReceive \/ CommHandleMessage
    \/ CommSendResult \/ CommUpdateTake \/ CommUpdateGive \/ CommExit

runUILoop ==
    \/ UIEntry \/ UIWhile \/ UIReceive \/ UIUpdate
    \/ (\E op \in ScreenOperations : UIScreenCallsManager(op))
    \/ UIScreenCallReturns \/ UIExit
    \/ (\E operation \in FileOperations : OnFileOperation(operation))

\* initialize(), start() and stop() on the launcher, and the two loops with
\* the file operations the UI posts; the log callbacks of the BLE host task,
\* which only add messages to the UI mailbox, are left out
NextCancel ==
    \/ Initialize
    \/ StartCreateCommunicationsTask
    \/ StartCreateUITask
    \/ StartSetRunning
    \/ AppStartScanning
    \/ AppStartScanningReturn
    \/ StopClearRunning
    \/ StopSendToUI
    \/ StopSendToCommunications
    \/ StopWaitTasksFinished
    \/ StopWaitTimeout
    \/ CleanupTasks
    \/ StopTakeMutex
    \/ StopTeardown
    \/ runCommunicationsLoop
    \/ runUILoop

\* both tasks are pinned to a core of their own and sleep in vTaskDelay in
\* every iteration, so each of them keeps being scheduled; nothing is
\* assumed about the caller of start() and stop()
SpecCancel ==
    Init /\ [][NextCancel]_vars
         /\ WF_vars(runCommunicationsLoop) /\ WF_vars(runUILoop)

\* C31: once stop() has cleared the running flag, each loop that keeps
\* being scheduled reports that it is not running and is gone, by itself
\* or, at the latest, by the vTaskDelete of cleanupTasks
C31_LoopsTerminateAfterStop ==
    (mainPc \in StopPcs) ~>
        (/\ ~communicationsTaskRunning /\ commPc \in {"ended", "deleted"}
         /\ ~uiTaskRunning /\ uiPc \in {"ended", "deleted"})

\* stop() is still waiting and both loops have ended by themselves
C31_Witness ==
    /\ mainPc = "stop_wait"
    /\ ~running
    /\ commPc = "ended" /\ uiPc = "ended"
    /\ ~communicationsTaskRunning /\ ~uiTaskRunning


\* ------------------------------------- BTLoggerSender, the level filter

BTLogLevels == {BT_VERBOSE, BT_DEBUG, BT_INFO, BT_WARN, BT_ERROR}

\* espLevelToBTLevel(esp_level); the ESP_LOGx macros pass the five levels
\* from ESP_LOG_ERROR to ESP_LOG_VERBOSE
espLevelToBTLevel(esp_level) ==
    CASE esp_level = "ESP_LOG_NONE" -> BT_ERROR
      [] esp_level = "ESP_LOG_ERROR" -> BT_ERROR
      [] esp_level = "ESP_LOG_WARN" -> BT_WARN
      [] esp_level = "ESP_LOG_INFO" -> BT_INFO
      [] esp_level = "ESP_LOG_DEBUG" -> BT_DEBUG
      [] esp_level = "ESP_LOG_VERBOSE" -> BT_VERBOSE
      [] OTHER -> BT_INFO

\* espLogWrite: `if (_initialized && _logCharacteristic && bt_level >=
\* _btLogLevel)` the packet is notified; _logCharacteristic is set by begin()
EspLogNotifies(sender, esp_level) ==
    sender.initialized /\ espLevelToBTLevel(esp_level) >= sender.btLogLevel

\* log(level, tag, message): `if (!_initialized || !_logCharacteristic)
\* return;` then the packet is notified
LogNotifies(sender, level) == sender.initialized

SenderEvent(op, level, sent) == [op |-> op, level |-> level, sent |-> sent]

\* begin(deviceName, btLogLevel, espLogLevel): nothing if already
\* initialized; else the levels are set, the BLE service is created, and
\* the ESP_LOGI that tests the integration is written
Begin(btLogLevel) ==
    /\ IF btLoggerSender.initialized
       THEN /\ UNCHANGED btLoggerSender
            /\ senderEvent' = <<>>
       ELSE /\ btLoggerSender' = [initialized |-> TRUE, btLogLevel |-> btLogLevel]
            /\ senderEvent' = SenderEvent("espLogWrite", BT_INFO,
                                          EspLogNotifies(btLoggerSender', "ESP_LOG_INFO"))
    /\ UNCHANGED <<taskVars, queueVars, harnessVars, sessionVars, btVars, disconnecting>>

\* setBTLogLevel(level), also through setVerboseMode ... setErrorOnlyMode:
\* `_btLogLevel = level;` and then ESP_LOGI("BTLOGGER", ...)
SetBTLogLevel(level) ==
    /\ btLoggerSender' = [btLoggerSender EXCEPT !.btLogLevel = level]
    /\ senderEvent' = SenderEvent("espLogWrite", BT_INFO,
                                  EspLogNotifies(btLoggerSender', "ESP_LOG_INFO"))
    /\ UNCHANGED <<taskVars, queueVars, harnessVars, sessionVars, btVars, disconnecting>>

\* ESP_LOGE ... ESP_LOGV(tag, format, ...) -> espLogWrite(esp_level, ...)
EspLog(esp_level) ==
    /\ senderEvent' = SenderEvent("espLogWrite", espLevelToBTLevel(esp_level),
                                  EspLogNotifies(btLoggerSender, esp_level))
    /\ UNCHANGED <<taskVars, queueVars, harnessVars, sessionVars, btVars, disconnecting, btLoggerSender>>

\* log(level, tag, message), also through debug/info/warn/error and the
\* BT_LOG_* macros
ManualLog(level) ==
    /\ senderEvent' = SenderEvent("log", level, LogNotifies(btLoggerSender, level))
    /\ UNCHANGED <<taskVars, queueVars, harnessVars, sessionVars, btVars, disconnecting, btLoggerSender>>

NextProducer ==
    \/ \E level \in BTLogLevels : Begin(level)
    \/ \E level \in BTLogLevels : SetBTLogLevel(level)
    \/ \E esp_level \in {"ESP_LOG_ERROR", "ESP_LOG_WARN", "ESP_LOG_INFO",
                         "ESP_LOG_DEBUG", "ESP_LOG_VERBOSE"} : EspLog(esp_level)
    \/ \E level \in BTLogLevels : ManualLog(level)

SpecProducer == Init /\ [][NextProducer]_vars

\* ------------------------------------------------------------- C32

\* C32: after begin(), a call notifies a packet only if the level of its
\* message is at or above the configured BTLogger level, through the
\* ESP_LOGx macros and through log() alike
C32_LevelFilter ==
    [][(senderEvent' # <<>> /\ senderEvent'.sent) =>
           senderEvent'.level >= btLoggerSender'.btLogLevel]_vars


\* ------------------------------------------------------------- C33

\* start() on a manager that was not initialized, whose initialize()
\* failed, or that was stopped: `if (running) return;` is the only test, the
\* first task is created. The tasks of an earlier run are gone by then.
StartAnew ==
    /\ mainPc \in {"constructed", "init_failed", "stopped"}
    /\ ~running
    /\ commPc \in {"none", "ended", "deleted"}
    /\ uiPc \in {"none", "ended", "deleted"}
    /\ communicationsTaskHandle' = TRUE
    /\ commPc' = "entry"
    /\ mainPc' = "start_createUI"
    /\ UNCHANGED <<running, communicationsTaskRunning, uiTaskRunning, uiTaskHandle,
                   managerMutex, queueVars, bluetoothManager, sdCardManager,
                   uiPc, blePc, useAfterFree, mainUnchanged>>

\* stop() right after start() returned
StopStarted ==
    /\ mainPc = "started"
    /\ running
    /\ running' = FALSE
    /\ mainPc' = "stop_sendToUI"
    /\ UNCHANGED <<communicationsTaskRunning, uiTaskRunning, communicationsTaskHandle,
                   uiTaskHandle, managerMutex, queueVars, bluetoothManager,
                   sdCardManager, commPc, uiPc, blePc, useAfterFree, mainUnchanged>>

\* initialize() on a manager that was stopped
InitializeAgain ==
    /\ mainPc = "stopped"
    /\ initialize

\* any sequence of initialize(), start() and stop(), and the two loops
NextLifecycle ==
    \/ NextCancel
    \/ StartAnew
    \/ StopStarted
    \/ InitializeAgain

SpecLifecycle == Init /\ [][NextLifecycle]_vars

\* C33: a loop that is about to receive from its mailbox or to take the
\* manager mutex finds the mailbox or the mutex in existence
C33_LoopsUseExistingObjects ==
    /\ commPc = "receive" => communicationsMessageQueue.created
    /\ uiPc = "receive" => uiMessageQueue.created
    /\ commPc = "update" => managerMutex # "null"
    /\ (commPc = "handle" /\ commMessage.type = "MSG_FILE_OPERATION") =>
          managerMutex # "null"

\* ------------------------------ cleanupTasks against a loop that is exiting

\* The statements of cleanupTasks and of the two loop exits one at a time:
\* stop() runs in the launcher's task while the communications loop runs on
\* the other core, and nothing orders the test in cleanupTasks against the
\* loop's own last statements.

\* `communicationsTaskRunning = false;`
CommExitClear ==
    /\ commPc = "exit"
    /\ communicationsTaskRunning' = FALSE
    /\ commPc' = "exit_println"
    /\ UNCHANGED <<managerMutex, queueVars, commMessage, fileOpsDequeued,
                   fileOpsAnswered, commUnchanged>>

\* `Serial.println(...); vTaskDelete(nullptr);`
CommExitDelete ==
    /\ commPc = "exit_println"
    /\ commPc' = "ended"
    /\ UNCHANGED <<communicationsTaskRunning, managerMutex, queueVars, commMessage,
                   fileOpsDequeued, fileOpsAnswered, commUnchanged>>

\* `uiTaskRunning = false;`
UIExitClear ==
    /\ uiPc = "exit"
    /\ uiTaskRunning' = FALSE
    /\ uiPc' = "exit_println"
    /\ UNCHANGED <<uiMessageQueue, uiUnchanged>>

\* `Serial.println(...); vTaskDelete(nullptr);`
UIExitDelete ==
    /\ uiPc = "exit_println"
    /\ uiPc' = "ended"
    /\ UNCHANGED <<uiTaskRunning, uiMessageQueue, uiUnchanged>>

\* cleanupTasks(): `if (communicationsTaskHandle && communicationsTaskRunning)`
CleanupTestCommunications ==
    /\ mainPc = "stop_cleanupTasks"
    /\ mainPc' = IF communicationsTaskHandle /\ communicationsTaskRunning
                 THEN "cleanup_deleteCommunications"
                 ELSE "cleanup_testUI"
    /\ UNCHANGED <<running, communicationsTaskRunning, uiTaskRunning,
                   communicationsTaskHandle, uiTaskHandle, managerMutex, queueVars,
                   bluetoothManager, sdCardManager, commPc, uiPc, blePc,
                   useAfterFree, mainUnchanged>>

\* cleanupTasks(): `vTaskDelete(communicationsTaskHandle);` and the two resets.
\* "ended_deleted" is a task that had deleted itself and is deleted again.
CleanupDeleteCommunications ==
    /\ mainPc = "cleanup_deleteCommunications"
    /\ commPc' = IF commPc = "ended" THEN "ended_deleted" ELSE "deleted"
    /\ communicationsTaskHandle' = FALSE
    /\ communicationsTaskRunning' = FALSE
    /\ mainPc' = "cleanup_testUI"
    /\ UNCHANGED <<running, uiTaskRunning, uiTaskHandle, managerMutex, queueVars,
                   bluetoothManager, sdCardManager, uiPc, blePc, useAfterFree,
                   mainUnchanged>>

\* cleanupTasks(): `if (uiTaskHandle && uiTaskRunning)`
CleanupTestUI ==
    /\ mainPc = "cleanup_testUI"
    /\ mainPc' = IF uiTaskHandle /\ uiTaskRunning
                 THEN "cleanup_deleteUI"
                 ELSE "stop_takeMutex"
    /\ UNCHANGED <<running, communicationsTaskRunning, uiTaskRunning,
                   communicationsTaskHandle, uiTaskHandle, managerMutex, queueVars,
                   bluetoothManager, sdCardManager, commPc, uiPc, blePc,
                   useAfterFree, mainUnchanged>>

\* cleanupTasks(): `vTaskDelete(uiTaskHandle);` and the two resets
CleanupDeleteUI ==
    /\ mainPc = "cleanup_deleteUI"
    /\ uiPc' = IF uiPc = "ended" THEN "ended_deleted" ELSE "deleted"
    /\ uiTaskHandle' = FALSE
    /\ uiTaskRunning' = FALSE
    /\ mainPc' = "stop_takeMutex"
    /\ UNCHANGED <<running, communicationsTaskRunning, communicationsTaskHandle,
                   managerMutex, queueVars, bluetoothManager, sdCardManager,
                   commPc, blePc, useAfterFree, mainUnchanged>>

NextTerminate ==
    \/ Initialize
    \/ StartCreateCommunicationsTask
    \/ StartCreateUITask
    \/ StartSetRunning
    \/ AppStartScanning
    \/ AppStartScanningReturn
    \/ StopClearRunning
    \/ StopSendToUI
    \/ StopSendToCommunications
    \/ StopWaitTasksFinished
    \/ StopWaitTimeout
    \/ CleanupTestCommunications
    \/ CleanupDeleteCommunications
    \/ CleanupTestUI
    \/ CleanupDeleteUI
    \/ StopTakeMutex
    \/ StopTeardown
    \/ CommEntry
    \/ CommWhile
    \/ CommReceive
    \/ CommHandleMessage
    \/ CommSendResult
    \/ CommUpdateTake
    \/ CommUpdateGive
    \/ CommExitClear
    \/ CommExitDelete
    \/ UIEntry
    \/ UIWhile
    \/ UIReceive
    \/ UIUpdate
    \/ \E op \in ScreenOperations : UIScreenCallsManager(op)
    \/ UIScreenCallReturns
    \/ UIExitClear
    \/ UIExitDelete
    \/ \E operation \in FileOperations : OnFileOperation(operation)

SpecTerminate == Init /\ [][NextTerminate]_vars

\* C34: a loop is terminated once: cleanupTasks never calls vTaskDelete on a
\* task that has already cleared its indicator and deleted itself.
C34_TerminatedOnce ==
    /\ commPc # "ended_deleted"
    /\ uiPc # "ended_deleted"

\* ------------------------------------------------------------------- C35

\* the entries of the connected-device list that carry a name: each was
\* appended together with connectionCallback(name, true)
Outstanding(devices, name) ==
    Cardinality({i \in 1..Len(devices) : devices[i].name = name})

\* the names the connection callback can be called with
CallbackNames == {d.name : d \in Advertisers} \cup {<<>>}

\* C35: connectionCallback(name, false) is fired only while a
\* connectionCallback(name, true) is unanswered (that is, while an entry
\* appended with that name is in connectedDevices) and answers one of them;
\* an operation that fires no callback leaves the entries as they are; and
\* every disconnect, by disconnectDevice or by the peer, fires exactly one
\* connectionCallback(name, false).
C35_CallbacksAlternate ==
    [][/\ \A i \in 1..Len(btEvent'.callbacks) :
             LET cb == btEvent'.callbacks[i]
             IN IF cb[2]
                THEN Outstanding(connectedDevices', cb[1]) =
                         Outstanding(connectedDevices, cb[1]) + 1
                ELSE /\ Outstanding(connectedDevices, cb[1]) > 0
                     /\ Outstanding(connectedDevices', cb[1]) =
                            Outstanding(connectedDevices, cb[1]) - 1
       /\ btEvent'.callbacks = <<>> =>
             \A name \in CallbackNames :
                 Outstanding(connectedDevices', name) =
                     Outstanding(connectedDevices, name)
       /\ btEvent'.op \in {"disconnectDevice", "onDeviceDisconnected"} =>
             /\ Len(btEvent'.callbacks) = 1
             /\ ~btEvent'.callbacks[1][2]]_vars

\* --------------------------- disconnectDevice against a peer's disconnect

\* disconnectDevice runs on the device screen's task and onDeviceDisconnected
\* on the BLE stack's task; both walk connectedDevices and nothing serialises
\* them, so the statements of disconnectDevice are taken in two steps here.

\* disconnectDevice(address) up to `delete it->client;`: the first entry with
\* the address is found, its client is disconnected and deleted
DisconnectDeviceDeletes(address) ==
    /\ bluetoothManager
    /\ disconnecting = <<>>
    /\ connecting["ui"] = NoAttempt
    /\ IF IndexOf(connectedDevices, address) = {}
       THEN UNCHANGED <<clients, subscribed, disconnecting>>
       ELSE LET i == First(IndexOf(connectedDevices, address))
                it == connectedDevices[i]
            IN /\ clients' = IF it.client # 0 /\ it.connected
                             THEN clients \ {it.client} ELSE clients
               /\ subscribed' = subscribed \ {it.client}
               /\ disconnecting' = [address |-> address, it |-> i]
    /\ btEvent' = NoEvent
    /\ UNCHANGED <<taskVars, queueVars, harnessVars, producerVars, sessionVars,
                   scanning, lastScanTime, availableDevices, connectedDevices,
                   connecting, lastAutoAttempt, lastNotify>>

\* disconnectDevice from `connectionCallback(it->name, false);` on: the
\* callback and connectedDevices.erase(it). If the other task has erased an
\* entry meanwhile, `it` is the entry that moved into its place, or is past
\* the end: then the name is whatever the memory holds and erase(it) drops
\* the last entry or nothing.
DisconnectDeviceErases ==
    /\ bluetoothManager
    /\ disconnecting # <<>>
    /\ IF disconnecting.it <= Len(connectedDevices)
       THEN /\ btEvent' = BtEvent("disconnectDevice", disconnecting.address, FALSE,
                                  <<<<connectedDevices[disconnecting.it].name, FALSE>>>>)
            /\ connectedDevices' = RemoveAt(connectedDevices, disconnecting.it)
       ELSE /\ btEvent' = BtEvent("disconnectDevice", disconnecting.address, FALSE,
                                  <<<<<<>>, FALSE>>>>)
            /\ connectedDevices' \in
                   {connectedDevices,
                    SubSeq(connectedDevices, 1, Len(connectedDevices) - 1)}
    /\ disconnecting' = <<>>
    /\ UNCHANGED <<taskVars, queueVars, harnessVars, producerVars, sessionVars,
                   scanning, lastScanTime, availableDevices, clients, subscribed,
                   connecting, lastAutoAttempt, lastNotify>>

NextDisconnect ==
    \/ Initialize
    \/ StartScanning
    \/ StopScanning
    \/ \E device \in Advertisers : OnDeviceFound(device)
    \/ \E ctx \in Contexts : ConnectReturns(ctx)
    \/ \E address \in ScreenDevices : DisconnectDeviceDeletes(address)
    \/ DisconnectDeviceErases
    \/ \E address \in Addresses : OnDeviceDisconnected(address)
    \/ BluetoothUpdate

SpecDisconnect == Init /\ [][NextDisconnect]_vars

\* the clients an entry of connectedDevices or a connectToDevice in progress
\* points to
Owned(devices, attempts) ==
    {devices[i].client : i \in 1..Len(devices)} \cup
    {attempts[c].client : c \in {x \in Contexts : attempts[x] # NoAttempt}}

ConnectableDevice == CHOOSE d \in Advertisers : d.address = "aa"

\* connectToDevice, called from the scan callback, returns; the attempt to
\* the connectable candidate finds the service and the characteristic
ConnectableReturns ==
    /\ ConnectReturns("scan")
    /\ connecting["scan"].address = ConnectableDevice.address => btEvent'.returned

\* scanCompleteCallback: the 5 s scan ends; it has reported the connectable
\* candidate, which advertises all the time
ScanCompletes ==
    /\ IndexOf(availableDevices, ConnectableDevice.address) # {}
    /\ StopScanning

NextAutoConnect ==
    \/ Initialize
    \/ StartScanning
    \/ ScanCompletes
    \/ \E device \in Advertisers : OnDeviceFound(device)
    \/ ConnectableReturns
    \/ \E address \in Addresses : OnDeviceDisconnected(address)
    \/ BluetoothUpdate
    \/ ScanIntervalPasses

\* update() is called on every iteration of the communications loop, a scan
\* ends after 5 s, time passes, the connectable candidate keeps advertising
\* and the blocking client->connect returns
SpecAutoConnect ==
    Init /\ [][NextAutoConnect]_vars
         /\ WF_vars(BluetoothUpdate)
         /\ WF_vars(ScanCompletes)
         /\ WF_vars(ScanIntervalPasses)
         /\ WF_vars(OnDeviceFound(ConnectableDevice))
         /\ WF_vars(ConnectableReturns)

\* C37: when no device is connected and the connectable candidate is in
\* availableDevices (with a scan restart interval still to come), a device
\* gets connected; and a newly found candidate is tried whenever no device is
\* connected, whatever became of the attempts to the candidates found before.
C37_AutoConnectProgress ==
    /\ (/\ getConnectedDeviceCount(connectedDevices) = 0
        /\ IndexOf(availableDevices, ConnectableDevice.address) # {}
        /\ millis <= SCAN_RESTART_MS) ~>
           (getConnectedDeviceCount(connectedDevices) > 0)
    /\ [][(/\ Len(availableDevices') = Len(availableDevices) + 1
           /\ getConnectedDeviceCount(connectedDevices) = 0) =>
             /\ connecting'["scan"] # NoAttempt
             /\ connecting'["scan"].address =
                    availableDevices'[Len(availableDevices')].address]_vars

\* update() has restarted the scan after the interval, the scan has found the
\* connectable candidate again and the candidate is connected
C37_Witness ==
    /\ millis > SCAN_RESTART_MS
    /\ lastScanTime = millis
    /\ Len(connectedDevices) = 1
    /\ connectedDevices[1].address = ConnectableDevice.address
    /\ connectedDevices[1].connected

\* ------------------------------------------ the session log, store healthy

\* The card stays in, SD.open succeeds and print() writes every byte.

\* a record of `size` bytes arrives for the device
SaveLogHealthy(deviceName, size) ==
    /\ cardPresent
    /\ onLogReceivedUpTo(deviceName, size, FALSE, MaxHealthyRecords)
    /\ UNCHANGED <<taskVars, queueVars, harnessVars, producerVars, disconnecting, btVars>>

\* a device connects
StartSessionHealthy(deviceName) ==
    /\ cardPresent
    /\ onDeviceConnection(deviceName, TRUE, FALSE)
    /\ UNCHANGED <<taskVars, queueVars, harnessVars, producerVars, disconnecting, btVars>>

NextHealthy ==
    \/ \E d \in Devices, size \in RecordSizes : SaveLogHealthy(d, size)
    \/ \E d \in Devices : StartSessionHealthy(d)
    \/ EndCurrentSession
    \/ Tick

SpecHealthy == Init /\ [][NextHealthy]_vars

\* C38: with the card in and every open and write succeeding,
\* saveLogToSession returns true for every record.
C38_HealthyStoreNeverFails ==
    saveResult.called => saveResult.returned

\* ------------------------------------------------------------------- C39

\* handleUIMessage for MSG_LOG_RECEIVED, whose value1 is packet.level: the
\* level named in the toast and the ToastManager call that shows it
handleUIMessage(value1) ==
    IF value1 >= 2
    THEN [levelStr |-> IF value1 = 2 THEN "WARN" ELSE "ERROR",
          toast |-> IF value1 = 3 THEN "showError" ELSE "showWarning"]
    ELSE [levelStr |-> "", toast |-> ""]

\* SDCardManager::getLevelString(level)
getLevelString(level) ==
    CASE level = 0 -> "DEBUG"
      [] level = 1 -> "INFO "
      [] level = 2 -> "WARN "
      [] level = 3 -> "ERROR"
      [] OTHER -> "UNKN "

\* C39: the level code of a packet the producer has sent means the same at
\* the receiver: BT_WARN gives a warning toast named WARN and the level name
\* "WARN ", BT_ERROR gives an error toast named ERROR and the level name
\* "ERROR", and BT_INFO or lower gives no toast.
C39_LevelCodesAgree ==
    (senderEvent # <<>> /\ senderEvent.sent) =>
        LET level == senderEvent.level
        IN /\ level = BT_WARN =>
                 /\ handleUIMessage(level) = [levelStr |-> "WARN", toast |-> "showWarning"]
                 /\ getLevelString(level) = "WARN "
           /\ level = BT_ERROR =>
                 /\ handleUIMessage(level) = [levelStr |-> "ERROR", toast |-> "showError"]
                 /\ getLevelString(level) = "ERROR"
           /\ level <= BT_INFO => handleUIMessage(level).toast = ""

\* ------------------------------------------- onLogReceived, store and mailbox

\* the size of the records of this run
SmallestRecord == CHOOSE s \in RecordSizes : \A t \in RecordSizes : s <= t

\* what sendToUI makes of the harness counters: the attempt is counted and
\* recorded as sent or as failed
CountSendToUI(sent) ==
    LET id == sendCount["ui"] + 1
    IN /\ sendCount' = [sendCount EXCEPT !["ui"] = id]
       /\ sendOk' = IF sent THEN [sendOk EXCEPT !["ui"] = @ \cup {id}] ELSE sendOk
       /\ sendFailed' = IF sent THEN sendFailed
                        ELSE [sendFailed EXCEPT !["ui"] = @ \cup {id}]

\* an onLogReceived that enqueues first and saves the record only if the
\* message was enqueued
DeliverRecordSavesIfEnqueued(deviceName, size) ==
    /\ bluetoothManager
    /\ sdCardManager
    /\ cardPresent
    /\ \E out \in SendTo(uiMessageQueue,
                         CoreMessage("MSG_LOG_RECEIVED", deviceName, "message", BT_ERROR)) :
          /\ uiMessageQueue' = out[2]
          /\ CountSendToUI(out[1])
          /\ IF out[1]
             THEN onLogReceivedUpTo(deviceName, size, FALSE, MaxDelivered)
             ELSE /\ recordsGiven < MaxDelivered
                  /\ recordsGiven' = recordsGiven + 1
                  /\ saveResult' = NoSave
                  /\ UNCHANGED <<currentSessionFile, currentDeviceName, currentFile,
                                 currentFileSize, currentFileNumber, openFiles, files,
                                 cardPresent, millis, sessionRecords,
                                 sessionRecordBytes, fileResult>>
    /\ UNCHANGED <<taskVars, communicationsMessageQueue, senderPc, received,
                   producerVars, disconnecting, btVars>>

\* BTLoggerApp::onLogReceived(packet, deviceName), with the card in and the
\* store healthy: saveLogToSession(packet, deviceName), then
\* sendToUI(CoreMessage(MSG_LOG_RECEIVED, deviceName, message, level)), whose
\* result is ignored
DeliverRecord(deviceName, size) ==
    /\ bluetoothManager
    /\ sdCardManager
    /\ cardPresent
    /\ onLogReceivedUpTo(deviceName, size, FALSE, MaxDelivered)
    /\ \E out \in SendTo(uiMessageQueue,
                         CoreMessage("MSG_LOG_RECEIVED", deviceName, "message", BT_ERROR)) :
          /\ uiMessageQueue' = out[2]
          /\ CountSendToUI(out[1])
    /\ UNCHANGED <<taskVars, communicationsMessageQueue, senderPc, received,
                   producerVars, disconnecting, btVars>>

NextDeliver ==
    \/ Initialize
    \/ \E d \in Devices : DeliverRecord(d, SmallestRecord)
    \/ \E mb \in {"ui"} : LoopReceive(mb)

SpecDeliver == Init /\ [][NextDeliver]_vars

\* the numbers of the records of a file, in the order they stand in it
RecordIds(content) ==
    LET recs == SelectSeq(content, LAMBDA piece : piece.kind = "record")
    IN [i \in 1..Len(recs) |-> recs[i].id]

\* C40: for every record delivered to the log callback saveLogToSession is
\* called once and appends the record at the end of the open session file,
\* after every record delivered before it; sendToUI is attempted once; and
\* the record is appended whether or not the mailbox took the message.
C40_RecordsInArrivalOrder ==
    [][recordsGiven' = recordsGiven + 1 =>
          /\ saveResult'.called
          /\ saveResult'.returned
          /\ currentFile' \in openFiles'
          /\ \A path \in DOMAIN files' :
                LET ids == RecordIds(files'[path])
                IN /\ \A i \in 1..Len(ids) : (ids[i] = recordsGiven') <=>
                                              (path = currentFile' /\ i = Len(ids))
                   /\ \A i, j \in 1..Len(ids) : i < j => ids[i] < ids[j]
          /\ RecordIds(files'[currentFile']) # <<>>
          /\ sendCount'["ui"] = sendCount["ui"] + 1
          /\ Len(uiMessageQueue'.items) =
                 IF QueueFull(uiMessageQueue) THEN Len(uiMessageQueue.items)
                 ELSE Len(uiMessageQueue.items) + 1]_vars

\* the mailbox was full when the last record came: the enqueue failed and the
\* record is in the session file
C40_Witness ==
    /\ saveResult.called
    /\ saveResult.returned
    /\ sendCount["ui"] \in sendFailed["ui"]
    /\ recordsGiven = sendCount["ui"]
    /\ currentFile \in openFiles
    /\ RecordIds(files[currentFile])[Len(RecordIds(files[currentFile]))] = recordsGiven

====
